---------------------------- MODULE Spec2Model ----------------------------
(***************************************************************************)
(* NiceMed: the journal registry build step (scripts/convert-csv.js) and   *)
(* the runtime resolver (the background script), with the content scripts *)
(* of a page that query it.                                                *)
(*                                                                         *)
(* Representation of JavaScript values                                     *)
(*   string      a sequence of one-character strings; "" is << >>          *)
(*   null        Null, undefined  Undefined  (one-element sequences whose  *)
(*               element is no character)                                  *)
(*   number      a double: <<"number", s, m, e>> is s * m * 2^e, with s    *)
(*               the sign, m an odd natural number written in digits of    *)
(*               base 2^15, lowest first, and e an integer; 0 and -0 have  *)
(*               m = << >>; NaN, Infinity and NegInfinity are one-element  *)
(*               sequences. Arithmetic rounds to the nearest double.       *)
(*   object      a record; an object reference is an index into a heap     *)
(* Characters outside printable ASCII, and the grave accent U+0060, are    *)
(* written as one token "U+XXXX" each; TAB, LF, FF, CR are "\t", "\n",     *)
(* "\f", "\r". A character of a string is one UTF-16 code unit; a code     *)
(* point above U+FFFF is the two tokens of its surrogate pair.              *)
(***************************************************************************)
EXTENDS Integers, Sequences, FiniteSets, TLC

VARIABLES
    \* ---- build step: convert() ----
    casData,        \* rows parsed from the primary (CAS) CSV
    jcrData,        \* rows parsed from the secondary (JCR) CSV
    pc,             \* position of the running script
    ci,             \* index of the next primary row
    ji,             \* index of the next secondary row
    journals,       \* const journals = {}: sequence of <<key, reference>> in key order
    heap,           \* the journal objects allocated so far, by reference
    excludedIssns,  \* const excludedIssns = new Set()
    origin,         \* history: the row each object of the heap was allocated for
    output,         \* const output = {}: sequence of <<key, reference>> in key order
    files,          \* which of the two CSV files readFileSync can read
    written,        \* writeFileSync(OUTPUT_JSON, ...) was called
    exitStatus,     \* the exit status of the node process, -1 while it runs
    \* ---- runtime: background script ----
    script,         \* the copy of the background script that runs
    artifact,       \* data/journals.json as fetch delivers it: << >> when the fetch
                    \* fails, else <<entries>>, the entries in key order
    journalData,    \* let journalData: << >> for null, else <<entries>>
    nameIndex,      \* let nameIndex: << >> for null, else <<map>>, the map a sequence
                    \* of <<normalized name, index of the record in journalData>>
    dataLoaded,     \* let dataLoaded
    query,          \* the query of the last message handled
    result,         \* what the handler answered: the index of the record in
                    \* journalData, 0 for null, -1 before any message
    msg,            \* message.type of the last message handled, "none" before any;
                    \* query and result, queries and results, status hold the
                    \* last message and its response and are idle for the others
    queries,        \* message.queries of a queryBatch message
    results,        \* the response to it
    status,         \* the response to a getStatus message
    \* ---- a single call of a pure function ----
    arg,
    ret,
    \* ---- a page: the content scripts ----
    cache,          \* NiceMed._cache: sequence of <<cache key, result>>
    calls,          \* the calls of NiceMed.queryJournal made so far, each with its
                    \* position, query, the response under way and the value returned
    dom             \* the page: the processed attributes of the journal trigger, of
                    \* the article title and of the entries of its lists, and the
                    \* badge containers inserted

cvars == <<casData, jcrData, pc, ci, ji, journals, heap, excludedIssns, origin, output,
          files, written, exitStatus>>
\* the variables of the build step but pc
cdata == <<casData, jcrData, ci, ji, journals, heap, excludedIssns, origin, output,
          files, written, exitStatus>>
rvars == <<script, artifact, journalData, nameIndex, dataLoaded, query, result,
          msg, queries, results, status>>
nvars == <<arg, ret>>
pvars == <<cache, calls, dom>>
vars == <<casData, jcrData, pc, ci, ji, journals, heap, excludedIssns, origin, output,
          files, written, exitStatus,
          script, artifact, journalData, nameIndex, dataLoaded, query, result,
          msg, queries, results, status, arg, ret, cache, calls, dom>>

-----------------------------------------------------------------------------
(* JavaScript values *)

Null == <<"null">>
Undefined == <<"undefined">>
\* true and false of a JSON text
True == <<"true">>
False == <<"false">>
NaN == <<"NaN">>
\* 0 and -0, s being 1 or -1
Zero(s) == <<"number", s, <<>>, 0>>
\* !v: v is "", null, undefined, false, NaN, 0 or -0
Falsy(v) ==
    \/ v = <<>> \/ v = Null \/ v = Undefined
    \/ v = False \/ v = NaN \/ v = Zero(1) \/ v = Zero(-1)

-----------------------------------------------------------------------------
(* Strings *)

Lower == <<"a","b","c","d","e","f","g","h","i","j","k","l","m",
           "n","o","p","q","r","s","t","u","v","w","x","y","z">>
Upper == <<"A","B","C","D","E","F","G","H","I","J","K","L","M",
           "N","O","P","Q","R","S","T","U","V","W","X","Y","Z">>
Digit == <<"0","1","2","3","4","5","6","7","8","9">>

InSeq(c, s) == \E i \in 1..Len(s) : s[i] = c

IsDigit(c) == InSeq(c, Digit)

DigitVal(c) == (CHOOSE i \in 1..10 : Digit[i] = c) - 1

\* a character the regular expression \s matches, and trim() and parseFloat skip:
\* the WhiteSpace and LineTerminator characters of ECMAScript
WhiteSpace ==
    { " ", "\t", "\n", "\r", "\f", "U+000B", "U+00A0", "U+1680",
      "U+2000", "U+2001", "U+2002", "U+2003", "U+2004", "U+2005", "U+2006",
      "U+2007", "U+2008", "U+2009", "U+200A", "U+2028", "U+2029", "U+202F",
      "U+205F", "U+3000", "U+FEFF" }

IsSpace(c) == c \in WhiteSpace

\* String.prototype.toUpperCase of one character of the Basic Multilingual Plane,
\* where the result is not the character itself and the character is not one of
\* a-z (SpecialCasing and UnicodeData of Unicode 17). A row is four fields of
\* six characters, the character and the one to three characters it becomes; a
\* field holds a token, or one character and five spaces, or six spaces.

UpperCaseMapping ==
    <<
      "U+00B5U+039C            U+00DFS     S           U+00E0U+00C0            U+00E1U+00C1            U+00E2U+00C2            U+00E3U+00C3            U+00E4U+00C4            U+00E5U+00C5            U+00E6U+00C6            U+00E7U+00C7            U+00E8U+00C8            U+00E9U+00C9            U+00EAU+00CA            U+00EBU+00CB            U+00ECU+00CC            U+00EDU+00CD            U+00EEU+00CE            U+00EFU+00CF            U+00F0U+00D0            U+00F1U+00D1            ",
      "U+00F2U+00D2            U+00F3U+00D3            U+00F4U+00D4            U+00F5U+00D5            U+00F6U+00D6            U+00F8U+00D8            U+00F9U+00D9            U+00FAU+00DA            U+00FBU+00DB            U+00FCU+00DC            U+00FDU+00DD            U+00FEU+00DE            U+00FFU+0178            U+0101U+0100            U+0103U+0102            U+0105U+0104            U+0107U+0106            U+0109U+0108            U+010BU+010A            U+010DU+010C            ",
      "U+010FU+010E            U+0111U+0110            U+0113U+0112            U+0115U+0114            U+0117U+0116            U+0119U+0118            U+011BU+011A            U+011DU+011C            U+011FU+011E            U+0121U+0120            U+0123U+0122            U+0125U+0124            U+0127U+0126            U+0129U+0128            U+012BU+012A            U+012DU+012C            U+012FU+012E            U+0131I                 U+0133U+0132            U+0135U+0134            ",
      "U+0137U+0136            U+013AU+0139            U+013CU+013B            U+013EU+013D            U+0140U+013F            U+0142U+0141            U+0144U+0143            U+0146U+0145            U+0148U+0147            U+0149U+02BCN           U+014BU+014A            U+014DU+014C            U+014FU+014E            U+0151U+0150            U+0153U+0152            U+0155U+0154            U+0157U+0156            U+0159U+0158            U+015BU+015A            U+015DU+015C            ",
      "U+015FU+015E            U+0161U+0160            U+0163U+0162            U+0165U+0164            U+0167U+0166            U+0169U+0168            U+016BU+016A            U+016DU+016C            U+016FU+016E            U+0171U+0170            U+0173U+0172            U+0175U+0174            U+0177U+0176            U+017AU+0179            U+017CU+017B            U+017EU+017D            U+017FS                 U+0180U+0243            U+0183U+0182            U+0185U+0184            ",
      "U+0188U+0187            U+018CU+018B            U+0192U+0191            U+0195U+01F6            U+0199U+0198            U+019AU+023D            U+019BU+A7DC            U+019EU+0220            U+01A1U+01A0            U+01A3U+01A2            U+01A5U+01A4            U+01A8U+01A7            U+01ADU+01AC            U+01B0U+01AF            U+01B4U+01B3            U+01B6U+01B5            U+01B9U+01B8            U+01BDU+01BC            U+01BFU+01F7            U+01C5U+01C4            ",
      "U+01C6U+01C4            U+01C8U+01C7            U+01C9U+01C7            U+01CBU+01CA            U+01CCU+01CA            U+01CEU+01CD            U+01D0U+01CF            U+01D2U+01D1            U+01D4U+01D3            U+01D6U+01D5            U+01D8U+01D7            U+01DAU+01D9            U+01DCU+01DB            U+01DDU+018E            U+01DFU+01DE            U+01E1U+01E0            U+01E3U+01E2            U+01E5U+01E4            U+01E7U+01E6            U+01E9U+01E8            ",
      "U+01EBU+01EA            U+01EDU+01EC            U+01EFU+01EE            U+01F0J     U+030C      U+01F2U+01F1            U+01F3U+01F1            U+01F5U+01F4            U+01F9U+01F8            U+01FBU+01FA            U+01FDU+01FC            U+01FFU+01FE            U+0201U+0200            U+0203U+0202            U+0205U+0204            U+0207U+0206            U+0209U+0208            U+020BU+020A            U+020DU+020C            U+020FU+020E            U+0211U+0210            ",
      "U+0213U+0212            U+0215U+0214            U+0217U+0216            U+0219U+0218            U+021BU+021A            U+021DU+021C            U+021FU+021E            U+0223U+0222            U+0225U+0224            U+0227U+0226            U+0229U+0228            U+022BU+022A            U+022DU+022C            U+022FU+022E            U+0231U+0230            U+0233U+0232            U+023CU+023B            U+023FU+2C7E            U+0240U+2C7F            U+0242U+0241            ",
      "U+0247U+0246            U+0249U+0248            U+024BU+024A            U+024DU+024C            U+024FU+024E            U+0250U+2C6F            U+0251U+2C6D            U+0252U+2C70            U+0253U+0181            U+0254U+0186            U+0256U+0189            U+0257U+018A            U+0259U+018F            U+025BU+0190            U+025CU+A7AB            U+0260U+0193            U+0261U+A7AC            U+0263U+0194            U+0264U+A7CB            U+0265U+A78D            ",
      "U+0266U+A7AA            U+0268U+0197            U+0269U+0196            U+026AU+A7AE            U+026BU+2C62            U+026CU+A7AD            U+026FU+019C            U+0271U+2C6E            U+0272U+019D            U+0275U+019F            U+027DU+2C64            U+0280U+01A6            U+0282U+A7C5            U+0283U+01A9            U+0287U+A7B1            U+0288U+01AE            U+0289U+0244            U+028AU+01B1            U+028BU+01B2            U+028CU+0245            ",
      "U+0292U+01B7            U+029DU+A7B2            U+029EU+A7B0            U+0345U+0399            U+0371U+0370            U+0373U+0372            U+0377U+0376            U+037BU+03FD            U+037CU+03FE            U+037DU+03FF            U+0390U+0399U+0308U+0301U+03ACU+0386            U+03ADU+0388            U+03AEU+0389            U+03AFU+038A            U+03B0U+03A5U+0308U+0301U+03B1U+0391            U+03B2U+0392            U+03B3U+0393            U+03B4U+0394            ",
      "U+03B5U+0395            U+03B6U+0396            U+03B7U+0397            U+03B8U+0398            U+03B9U+0399            U+03BAU+039A            U+03BBU+039B            U+03BCU+039C            U+03BDU+039D            U+03BEU+039E            U+03BFU+039F            U+03C0U+03A0            U+03C1U+03A1            U+03C2U+03A3            U+03C3U+03A3            U+03C4U+03A4            U+03C5U+03A5            U+03C6U+03A6            U+03C7U+03A7            U+03C8U+03A8            ",
      "U+03C9U+03A9            U+03CAU+03AA            U+03CBU+03AB            U+03CCU+038C            U+03CDU+038E            U+03CEU+038F            U+03D0U+0392            U+03D1U+0398            U+03D5U+03A6            U+03D6U+03A0            U+03D7U+03CF            U+03D9U+03D8            U+03DBU+03DA            U+03DDU+03DC            U+03DFU+03DE            U+03E1U+03E0            U+03E3U+03E2            U+03E5U+03E4            U+03E7U+03E6            U+03E9U+03E8            ",
      "U+03EBU+03EA            U+03EDU+03EC            U+03EFU+03EE            U+03F0U+039A            U+03F1U+03A1            U+03F2U+03F9            U+03F3U+037F            U+03F5U+0395            U+03F8U+03F7            U+03FBU+03FA            U+0430U+0410            U+0431U+0411            U+0432U+0412            U+0433U+0413            U+0434U+0414            U+0435U+0415            U+0436U+0416            U+0437U+0417            U+0438U+0418            U+0439U+0419            ",
      "U+043AU+041A            U+043BU+041B            U+043CU+041C            U+043DU+041D            U+043EU+041E            U+043FU+041F            U+0440U+0420            U+0441U+0421            U+0442U+0422            U+0443U+0423            U+0444U+0424            U+0445U+0425            U+0446U+0426            U+0447U+0427            U+0448U+0428            U+0449U+0429            U+044AU+042A            U+044BU+042B            U+044CU+042C            U+044DU+042D            ",
      "U+044EU+042E            U+044FU+042F            U+0450U+0400            U+0451U+0401            U+0452U+0402            U+0453U+0403            U+0454U+0404            U+0455U+0405            U+0456U+0406            U+0457U+0407            U+0458U+0408            U+0459U+0409            U+045AU+040A            U+045BU+040B            U+045CU+040C            U+045DU+040D            U+045EU+040E            U+045FU+040F            U+0461U+0460            U+0463U+0462            ",
      "U+0465U+0464            U+0467U+0466            U+0469U+0468            U+046BU+046A            U+046DU+046C            U+046FU+046E            U+0471U+0470            U+0473U+0472            U+0475U+0474            U+0477U+0476            U+0479U+0478            U+047BU+047A            U+047DU+047C            U+047FU+047E            U+0481U+0480            U+048BU+048A            U+048DU+048C            U+048FU+048E            U+0491U+0490            U+0493U+0492            ",
      "U+0495U+0494            U+0497U+0496            U+0499U+0498            U+049BU+049A            U+049DU+049C            U+049FU+049E            U+04A1U+04A0            U+04A3U+04A2            U+04A5U+04A4            U+04A7U+04A6            U+04A9U+04A8            U+04ABU+04AA            U+04ADU+04AC            U+04AFU+04AE            U+04B1U+04B0            U+04B3U+04B2            U+04B5U+04B4            U+04B7U+04B6            U+04B9U+04B8            U+04BBU+04BA            ",
      "U+04BDU+04BC            U+04BFU+04BE            U+04C2U+04C1            U+04C4U+04C3            U+04C6U+04C5            U+04C8U+04C7            U+04CAU+04C9            U+04CCU+04CB            U+04CEU+04CD            U+04CFU+04C0            U+04D1U+04D0            U+04D3U+04D2            U+04D5U+04D4            U+04D7U+04D6            U+04D9U+04D8            U+04DBU+04DA            U+04DDU+04DC            U+04DFU+04DE            U+04E1U+04E0            U+04E3U+04E2            ",
      "U+04E5U+04E4            U+04E7U+04E6            U+04E9U+04E8            U+04EBU+04EA            U+04EDU+04EC            U+04EFU+04EE            U+04F1U+04F0            U+04F3U+04F2            U+04F5U+04F4            U+04F7U+04F6            U+04F9U+04F8            U+04FBU+04FA            U+04FDU+04FC            U+04FFU+04FE            U+0501U+0500            U+0503U+0502            U+0505U+0504            U+0507U+0506            U+0509U+0508            U+050BU+050A            ",
      "U+050DU+050C            U+050FU+050E            U+0511U+0510            U+0513U+0512            U+0515U+0514            U+0517U+0516            U+0519U+0518            U+051BU+051A            U+051DU+051C            U+051FU+051E            U+0521U+0520            U+0523U+0522            U+0525U+0524            U+0527U+0526            U+0529U+0528            U+052BU+052A            U+052DU+052C            U+052FU+052E            U+0561U+0531            U+0562U+0532            ",
      "U+0563U+0533            U+0564U+0534            U+0565U+0535            U+0566U+0536            U+0567U+0537            U+0568U+0538            U+0569U+0539            U+056AU+053A            U+056BU+053B            U+056CU+053C            U+056DU+053D            U+056EU+053E            U+056FU+053F            U+0570U+0540            U+0571U+0541            U+0572U+0542            U+0573U+0543            U+0574U+0544            U+0575U+0545            U+0576U+0546            ",
      "U+0577U+0547            U+0578U+0548            U+0579U+0549            U+057AU+054A            U+057BU+054B            U+057CU+054C            U+057DU+054D            U+057EU+054E            U+057FU+054F            U+0580U+0550            U+0581U+0551            U+0582U+0552            U+0583U+0553            U+0584U+0554            U+0585U+0555            U+0586U+0556            U+0587U+0535U+0552      U+10D0U+1C90            U+10D1U+1C91            U+10D2U+1C92            ",
      "U+10D3U+1C93            U+10D4U+1C94            U+10D5U+1C95            U+10D6U+1C96            U+10D7U+1C97            U+10D8U+1C98            U+10D9U+1C99            U+10DAU+1C9A            U+10DBU+1C9B            U+10DCU+1C9C            U+10DDU+1C9D            U+10DEU+1C9E            U+10DFU+1C9F            U+10E0U+1CA0            U+10E1U+1CA1            U+10E2U+1CA2            U+10E3U+1CA3            U+10E4U+1CA4            U+10E5U+1CA5            U+10E6U+1CA6            ",
      "U+10E7U+1CA7            U+10E8U+1CA8            U+10E9U+1CA9            U+10EAU+1CAA            U+10EBU+1CAB            U+10ECU+1CAC            U+10EDU+1CAD            U+10EEU+1CAE            U+10EFU+1CAF            U+10F0U+1CB0            U+10F1U+1CB1            U+10F2U+1CB2            U+10F3U+1CB3            U+10F4U+1CB4            U+10F5U+1CB5            U+10F6U+1CB6            U+10F7U+1CB7            U+10F8U+1CB8            U+10F9U+1CB9            U+10FAU+1CBA            ",
      "U+10FDU+1CBD            U+10FEU+1CBE            U+10FFU+1CBF            U+13F8U+13F0            U+13F9U+13F1            U+13FAU+13F2            U+13FBU+13F3            U+13FCU+13F4            U+13FDU+13F5            U+1C80U+0412            U+1C81U+0414            U+1C82U+041E            U+1C83U+0421            U+1C84U+0422            U+1C85U+0422            U+1C86U+042A            U+1C87U+0462            U+1C88U+A64A            U+1C8AU+1C89            U+1D79U+A77D            ",
      "U+1D7DU+2C63            U+1D8EU+A7C6            U+1E01U+1E00            U+1E03U+1E02            U+1E05U+1E04            U+1E07U+1E06            U+1E09U+1E08            U+1E0BU+1E0A            U+1E0DU+1E0C            U+1E0FU+1E0E            U+1E11U+1E10            U+1E13U+1E12            U+1E15U+1E14            U+1E17U+1E16            U+1E19U+1E18            U+1E1BU+1E1A            U+1E1DU+1E1C            U+1E1FU+1E1E            U+1E21U+1E20            U+1E23U+1E22            ",
      "U+1E25U+1E24            U+1E27U+1E26            U+1E29U+1E28            U+1E2BU+1E2A            U+1E2DU+1E2C            U+1E2FU+1E2E            U+1E31U+1E30            U+1E33U+1E32            U+1E35U+1E34            U+1E37U+1E36            U+1E39U+1E38            U+1E3BU+1E3A            U+1E3DU+1E3C            U+1E3FU+1E3E            U+1E41U+1E40            U+1E43U+1E42            U+1E45U+1E44            U+1E47U+1E46            U+1E49U+1E48            U+1E4BU+1E4A            ",
      "U+1E4DU+1E4C            U+1E4FU+1E4E            U+1E51U+1E50            U+1E53U+1E52            U+1E55U+1E54            U+1E57U+1E56            U+1E59U+1E58            U+1E5BU+1E5A            U+1E5DU+1E5C            U+1E5FU+1E5E            U+1E61U+1E60            U+1E63U+1E62            U+1E65U+1E64            U+1E67U+1E66            U+1E69U+1E68            U+1E6BU+1E6A            U+1E6DU+1E6C            U+1E6FU+1E6E            U+1E71U+1E70            U+1E73U+1E72            ",
      "U+1E75U+1E74            U+1E77U+1E76            U+1E79U+1E78            U+1E7BU+1E7A            U+1E7DU+1E7C            U+1E7FU+1E7E            U+1E81U+1E80            U+1E83U+1E82            U+1E85U+1E84            U+1E87U+1E86            U+1E89U+1E88            U+1E8BU+1E8A            U+1E8DU+1E8C            U+1E8FU+1E8E            U+1E91U+1E90            U+1E93U+1E92            U+1E95U+1E94            U+1E96H     U+0331      U+1E97T     U+0308      U+1E98W     U+030A      ",
      "U+1E99Y     U+030A      U+1E9AA     U+02BE      U+1E9BU+1E60            U+1EA1U+1EA0            U+1EA3U+1EA2            U+1EA5U+1EA4            U+1EA7U+1EA6            U+1EA9U+1EA8            U+1EABU+1EAA            U+1EADU+1EAC            U+1EAFU+1EAE            U+1EB1U+1EB0            U+1EB3U+1EB2            U+1EB5U+1EB4            U+1EB7U+1EB6            U+1EB9U+1EB8            U+1EBBU+1EBA            U+1EBDU+1EBC            U+1EBFU+1EBE            U+1EC1U+1EC0            ",
      "U+1EC3U+1EC2            U+1EC5U+1EC4            U+1EC7U+1EC6            U+1EC9U+1EC8            U+1ECBU+1ECA            U+1ECDU+1ECC            U+1ECFU+1ECE            U+1ED1U+1ED0            U+1ED3U+1ED2            U+1ED5U+1ED4            U+1ED7U+1ED6            U+1ED9U+1ED8            U+1EDBU+1EDA            U+1EDDU+1EDC            U+1EDFU+1EDE            U+1EE1U+1EE0            U+1EE3U+1EE2            U+1EE5U+1EE4            U+1EE7U+1EE6            U+1EE9U+1EE8            ",
      "U+1EEBU+1EEA            U+1EEDU+1EEC            U+1EEFU+1EEE            U+1EF1U+1EF0            U+1EF3U+1EF2            U+1EF5U+1EF4            U+1EF7U+1EF6            U+1EF9U+1EF8            U+1EFBU+1EFA            U+1EFDU+1EFC            U+1EFFU+1EFE            U+1F00U+1F08            U+1F01U+1F09            U+1F02U+1F0A            U+1F03U+1F0B            U+1F04U+1F0C            U+1F05U+1F0D            U+1F06U+1F0E            U+1F07U+1F0F            U+1F10U+1F18            ",
      "U+1F11U+1F19            U+1F12U+1F1A            U+1F13U+1F1B            U+1F14U+1F1C            U+1F15U+1F1D            U+1F20U+1F28            U+1F21U+1F29            U+1F22U+1F2A            U+1F23U+1F2B            U+1F24U+1F2C            U+1F25U+1F2D            U+1F26U+1F2E            U+1F27U+1F2F            U+1F30U+1F38            U+1F31U+1F39            U+1F32U+1F3A            U+1F33U+1F3B            U+1F34U+1F3C            U+1F35U+1F3D            U+1F36U+1F3E            ",
      "U+1F37U+1F3F            U+1F40U+1F48            U+1F41U+1F49            U+1F42U+1F4A            U+1F43U+1F4B            U+1F44U+1F4C            U+1F45U+1F4D            U+1F50U+03A5U+0313      U+1F51U+1F59            U+1F52U+03A5U+0313U+0300U+1F53U+1F5B            U+1F54U+03A5U+0313U+0301U+1F55U+1F5D            U+1F56U+03A5U+0313U+0342U+1F57U+1F5F            U+1F60U+1F68            U+1F61U+1F69            U+1F62U+1F6A            U+1F63U+1F6B            U+1F64U+1F6C            ",
      "U+1F65U+1F6D            U+1F66U+1F6E            U+1F67U+1F6F            U+1F70U+1FBA            U+1F71U+1FBB            U+1F72U+1FC8            U+1F73U+1FC9            U+1F74U+1FCA            U+1F75U+1FCB            U+1F76U+1FDA            U+1F77U+1FDB            U+1F78U+1FF8            U+1F79U+1FF9            U+1F7AU+1FEA            U+1F7BU+1FEB            U+1F7CU+1FFA            U+1F7DU+1FFB            U+1F80U+1F08U+0399      U+1F81U+1F09U+0399      U+1F82U+1F0AU+0399      ",
      "U+1F83U+1F0BU+0399      U+1F84U+1F0CU+0399      U+1F85U+1F0DU+0399      U+1F86U+1F0EU+0399      U+1F87U+1F0FU+0399      U+1F88U+1F08U+0399      U+1F89U+1F09U+0399      U+1F8AU+1F0AU+0399      U+1F8BU+1F0BU+0399      U+1F8CU+1F0CU+0399      U+1F8DU+1F0DU+0399      U+1F8EU+1F0EU+0399      U+1F8FU+1F0FU+0399      U+1F90U+1F28U+0399      U+1F91U+1F29U+0399      U+1F92U+1F2AU+0399      U+1F93U+1F2BU+0399      U+1F94U+1F2CU+0399      U+1F95U+1F2DU+0399      U+1F96U+1F2EU+0399      ",
      "U+1F97U+1F2FU+0399      U+1F98U+1F28U+0399      U+1F99U+1F29U+0399      U+1F9AU+1F2AU+0399      U+1F9BU+1F2BU+0399      U+1F9CU+1F2CU+0399      U+1F9DU+1F2DU+0399      U+1F9EU+1F2EU+0399      U+1F9FU+1F2FU+0399      U+1FA0U+1F68U+0399      U+1FA1U+1F69U+0399      U+1FA2U+1F6AU+0399      U+1FA3U+1F6BU+0399      U+1FA4U+1F6CU+0399      U+1FA5U+1F6DU+0399      U+1FA6U+1F6EU+0399      U+1FA7U+1F6FU+0399      U+1FA8U+1F68U+0399      U+1FA9U+1F69U+0399      U+1FAAU+1F6AU+0399      ",
      "U+1FABU+1F6BU+0399      U+1FACU+1F6CU+0399      U+1FADU+1F6DU+0399      U+1FAEU+1F6EU+0399      U+1FAFU+1F6FU+0399      U+1FB0U+1FB8            U+1FB1U+1FB9            U+1FB2U+1FBAU+0399      U+1FB3U+0391U+0399      U+1FB4U+0386U+0399      U+1FB6U+0391U+0342      U+1FB7U+0391U+0342U+0399U+1FBCU+0391U+0399      U+1FBEU+0399            U+1FC2U+1FCAU+0399      U+1FC3U+0397U+0399      U+1FC4U+0389U+0399      U+1FC6U+0397U+0342      U+1FC7U+0397U+0342U+0399U+1FCCU+0397U+0399      ",
      "U+1FD0U+1FD8            U+1FD1U+1FD9            U+1FD2U+0399U+0308U+0300U+1FD3U+0399U+0308U+0301U+1FD6U+0399U+0342      U+1FD7U+0399U+0308U+0342U+1FE0U+1FE8            U+1FE1U+1FE9            U+1FE2U+03A5U+0308U+0300U+1FE3U+03A5U+0308U+0301U+1FE4U+03A1U+0313      U+1FE5U+1FEC            U+1FE6U+03A5U+0342      U+1FE7U+03A5U+0308U+0342U+1FF2U+1FFAU+0399      U+1FF3U+03A9U+0399      U+1FF4U+038FU+0399      U+1FF6U+03A9U+0342      U+1FF7U+03A9U+0342U+0399U+1FFCU+03A9U+0399      ",
      "U+214EU+2132            U+2170U+2160            U+2171U+2161            U+2172U+2162            U+2173U+2163            U+2174U+2164            U+2175U+2165            U+2176U+2166            U+2177U+2167            U+2178U+2168            U+2179U+2169            U+217AU+216A            U+217BU+216B            U+217CU+216C            U+217DU+216D            U+217EU+216E            U+217FU+216F            U+2184U+2183            U+24D0U+24B6            U+24D1U+24B7            ",
      "U+24D2U+24B8            U+24D3U+24B9            U+24D4U+24BA            U+24D5U+24BB            U+24D6U+24BC            U+24D7U+24BD            U+24D8U+24BE            U+24D9U+24BF            U+24DAU+24C0            U+24DBU+24C1            U+24DCU+24C2            U+24DDU+24C3            U+24DEU+24C4            U+24DFU+24C5            U+24E0U+24C6            U+24E1U+24C7            U+24E2U+24C8            U+24E3U+24C9            U+24E4U+24CA            U+24E5U+24CB            ",
      "U+24E6U+24CC            U+24E7U+24CD            U+24E8U+24CE            U+24E9U+24CF            U+2C30U+2C00            U+2C31U+2C01            U+2C32U+2C02            U+2C33U+2C03            U+2C34U+2C04            U+2C35U+2C05            U+2C36U+2C06            U+2C37U+2C07            U+2C38U+2C08            U+2C39U+2C09            U+2C3AU+2C0A            U+2C3BU+2C0B            U+2C3CU+2C0C            U+2C3DU+2C0D            U+2C3EU+2C0E            U+2C3FU+2C0F            ",
      "U+2C40U+2C10            U+2C41U+2C11            U+2C42U+2C12            U+2C43U+2C13            U+2C44U+2C14            U+2C45U+2C15            U+2C46U+2C16            U+2C47U+2C17            U+2C48U+2C18            U+2C49U+2C19            U+2C4AU+2C1A            U+2C4BU+2C1B            U+2C4CU+2C1C            U+2C4DU+2C1D            U+2C4EU+2C1E            U+2C4FU+2C1F            U+2C50U+2C20            U+2C51U+2C21            U+2C52U+2C22            U+2C53U+2C23            ",
      "U+2C54U+2C24            U+2C55U+2C25            U+2C56U+2C26            U+2C57U+2C27            U+2C58U+2C28            U+2C59U+2C29            U+2C5AU+2C2A            U+2C5BU+2C2B            U+2C5CU+2C2C            U+2C5DU+2C2D            U+2C5EU+2C2E            U+2C5FU+2C2F            U+2C61U+2C60            U+2C65U+023A            U+2C66U+023E            U+2C68U+2C67            U+2C6AU+2C69            U+2C6CU+2C6B            U+2C73U+2C72            U+2C76U+2C75            ",
      "U+2C81U+2C80            U+2C83U+2C82            U+2C85U+2C84            U+2C87U+2C86            U+2C89U+2C88            U+2C8BU+2C8A            U+2C8DU+2C8C            U+2C8FU+2C8E            U+2C91U+2C90            U+2C93U+2C92            U+2C95U+2C94            U+2C97U+2C96            U+2C99U+2C98            U+2C9BU+2C9A            U+2C9DU+2C9C            U+2C9FU+2C9E            U+2CA1U+2CA0            U+2CA3U+2CA2            U+2CA5U+2CA4            U+2CA7U+2CA6            ",
      "U+2CA9U+2CA8            U+2CABU+2CAA            U+2CADU+2CAC            U+2CAFU+2CAE            U+2CB1U+2CB0            U+2CB3U+2CB2            U+2CB5U+2CB4            U+2CB7U+2CB6            U+2CB9U+2CB8            U+2CBBU+2CBA            U+2CBDU+2CBC            U+2CBFU+2CBE            U+2CC1U+2CC0            U+2CC3U+2CC2            U+2CC5U+2CC4            U+2CC7U+2CC6            U+2CC9U+2CC8            U+2CCBU+2CCA            U+2CCDU+2CCC            U+2CCFU+2CCE            ",
      "U+2CD1U+2CD0            U+2CD3U+2CD2            U+2CD5U+2CD4            U+2CD7U+2CD6            U+2CD9U+2CD8            U+2CDBU+2CDA            U+2CDDU+2CDC            U+2CDFU+2CDE            U+2CE1U+2CE0            U+2CE3U+2CE2            U+2CECU+2CEB            U+2CEEU+2CED            U+2CF3U+2CF2            U+2D00U+10A0            U+2D01U+10A1            U+2D02U+10A2            U+2D03U+10A3            U+2D04U+10A4            U+2D05U+10A5            U+2D06U+10A6            ",
      "U+2D07U+10A7            U+2D08U+10A8            U+2D09U+10A9            U+2D0AU+10AA            U+2D0BU+10AB            U+2D0CU+10AC            U+2D0DU+10AD            U+2D0EU+10AE            U+2D0FU+10AF            U+2D10U+10B0            U+2D11U+10B1            U+2D12U+10B2            U+2D13U+10B3            U+2D14U+10B4            U+2D15U+10B5            U+2D16U+10B6            U+2D17U+10B7            U+2D18U+10B8            U+2D19U+10B9            U+2D1AU+10BA            ",
      "U+2D1BU+10BB            U+2D1CU+10BC            U+2D1DU+10BD            U+2D1EU+10BE            U+2D1FU+10BF            U+2D20U+10C0            U+2D21U+10C1            U+2D22U+10C2            U+2D23U+10C3            U+2D24U+10C4            U+2D25U+10C5            U+2D27U+10C7            U+2D2DU+10CD            U+A641U+A640            U+A643U+A642            U+A645U+A644            U+A647U+A646            U+A649U+A648            U+A64BU+A64A            U+A64DU+A64C            ",
      "U+A64FU+A64E            U+A651U+A650            U+A653U+A652            U+A655U+A654            U+A657U+A656            U+A659U+A658            U+A65BU+A65A            U+A65DU+A65C            U+A65FU+A65E            U+A661U+A660            U+A663U+A662            U+A665U+A664            U+A667U+A666            U+A669U+A668            U+A66BU+A66A            U+A66DU+A66C            U+A681U+A680            U+A683U+A682            U+A685U+A684            U+A687U+A686            ",
      "U+A689U+A688            U+A68BU+A68A            U+A68DU+A68C            U+A68FU+A68E            U+A691U+A690            U+A693U+A692            U+A695U+A694            U+A697U+A696            U+A699U+A698            U+A69BU+A69A            U+A723U+A722            U+A725U+A724            U+A727U+A726            U+A729U+A728            U+A72BU+A72A            U+A72DU+A72C            U+A72FU+A72E            U+A733U+A732            U+A735U+A734            U+A737U+A736            ",
      "U+A739U+A738            U+A73BU+A73A            U+A73DU+A73C            U+A73FU+A73E            U+A741U+A740            U+A743U+A742            U+A745U+A744            U+A747U+A746            U+A749U+A748            U+A74BU+A74A            U+A74DU+A74C            U+A74FU+A74E            U+A751U+A750            U+A753U+A752            U+A755U+A754            U+A757U+A756            U+A759U+A758            U+A75BU+A75A            U+A75DU+A75C            U+A75FU+A75E            ",
      "U+A761U+A760            U+A763U+A762            U+A765U+A764            U+A767U+A766            U+A769U+A768            U+A76BU+A76A            U+A76DU+A76C            U+A76FU+A76E            U+A77AU+A779            U+A77CU+A77B            U+A77FU+A77E            U+A781U+A780            U+A783U+A782            U+A785U+A784            U+A787U+A786            U+A78CU+A78B            U+A791U+A790            U+A793U+A792            U+A794U+A7C4            U+A797U+A796            ",
      "U+A799U+A798            U+A79BU+A79A            U+A79DU+A79C            U+A79FU+A79E            U+A7A1U+A7A0            U+A7A3U+A7A2            U+A7A5U+A7A4            U+A7A7U+A7A6            U+A7A9U+A7A8            U+A7B5U+A7B4            U+A7B7U+A7B6            U+A7B9U+A7B8            U+A7BBU+A7BA            U+A7BDU+A7BC            U+A7BFU+A7BE            U+A7C1U+A7C0            U+A7C3U+A7C2            U+A7C8U+A7C7            U+A7CAU+A7C9            U+A7CDU+A7CC            ",
      "U+A7CFU+A7CE            U+A7D1U+A7D0            U+A7D3U+A7D2            U+A7D5U+A7D4            U+A7D7U+A7D6            U+A7D9U+A7D8            U+A7DBU+A7DA            U+A7F6U+A7F5            U+AB53U+A7B3            U+AB70U+13A0            U+AB71U+13A1            U+AB72U+13A2            U+AB73U+13A3            U+AB74U+13A4            U+AB75U+13A5            U+AB76U+13A6            U+AB77U+13A7            U+AB78U+13A8            U+AB79U+13A9            U+AB7AU+13AA            ",
      "U+AB7BU+13AB            U+AB7CU+13AC            U+AB7DU+13AD            U+AB7EU+13AE            U+AB7FU+13AF            U+AB80U+13B0            U+AB81U+13B1            U+AB82U+13B2            U+AB83U+13B3            U+AB84U+13B4            U+AB85U+13B5            U+AB86U+13B6            U+AB87U+13B7            U+AB88U+13B8            U+AB89U+13B9            U+AB8AU+13BA            U+AB8BU+13BB            U+AB8CU+13BC            U+AB8DU+13BD            U+AB8EU+13BE            ",
      "U+AB8FU+13BF            U+AB90U+13C0            U+AB91U+13C1            U+AB92U+13C2            U+AB93U+13C3            U+AB94U+13C4            U+AB95U+13C5            U+AB96U+13C6            U+AB97U+13C7            U+AB98U+13C8            U+AB99U+13C9            U+AB9AU+13CA            U+AB9BU+13CB            U+AB9CU+13CC            U+AB9DU+13CD            U+AB9EU+13CE            U+AB9FU+13CF            U+ABA0U+13D0            U+ABA1U+13D1            U+ABA2U+13D2            ",
      "U+ABA3U+13D3            U+ABA4U+13D4            U+ABA5U+13D5            U+ABA6U+13D6            U+ABA7U+13D7            U+ABA8U+13D8            U+ABA9U+13D9            U+ABAAU+13DA            U+ABABU+13DB            U+ABACU+13DC            U+ABADU+13DD            U+ABAEU+13DE            U+ABAFU+13DF            U+ABB0U+13E0            U+ABB1U+13E1            U+ABB2U+13E2            U+ABB3U+13E3            U+ABB4U+13E4            U+ABB5U+13E5            U+ABB6U+13E6            ",
      "U+ABB7U+13E7            U+ABB8U+13E8            U+ABB9U+13E9            U+ABBAU+13EA            U+ABBBU+13EB            U+ABBCU+13EC            U+ABBDU+13ED            U+ABBEU+13EE            U+ABBFU+13EF            U+FB00F     F           U+FB01F     I           U+FB02F     L           U+FB03F     F     I     U+FB04F     F     L     U+FB05S     T           U+FB06S     T           U+FB13U+0544U+0546      U+FB14U+0544U+0535      U+FB15U+0544U+053B      U+FB16U+054EU+0546      ",
      "U+FB17U+0544U+053D      U+FF41U+FF21            U+FF42U+FF22            U+FF43U+FF23            U+FF44U+FF24            U+FF45U+FF25            U+FF46U+FF26            U+FF47U+FF27            U+FF48U+FF28            U+FF49U+FF29            U+FF4AU+FF2A            U+FF4BU+FF2B            U+FF4CU+FF2C            U+FF4DU+FF2D            U+FF4EU+FF2E            U+FF4FU+FF2F            U+FF50U+FF30            U+FF51U+FF31            U+FF52U+FF32            U+FF53U+FF33            ",
      "U+FF54U+FF34            U+FF55U+FF35            U+FF56U+FF36            U+FF57U+FF37            U+FF58U+FF38            U+FF59U+FF39            U+FF5AU+FF3A            "
    >>

\* String.prototype.toLowerCase of one character, likewise, outside A-Z: rows of
\* three fields

LowerCaseMapping ==
    <<
      "U+00C0U+00E0      U+00C1U+00E1      U+00C2U+00E2      U+00C3U+00E3      U+00C4U+00E4      U+00C5U+00E5      U+00C6U+00E6      U+00C7U+00E7      U+00C8U+00E8      U+00C9U+00E9      U+00CAU+00EA      U+00CBU+00EB      U+00CCU+00EC      U+00CDU+00ED      U+00CEU+00EE      U+00CFU+00EF      U+00D0U+00F0      U+00D1U+00F1      U+00D2U+00F2      U+00D3U+00F3      U+00D4U+00F4      U+00D5U+00F5      U+00D6U+00F6      U+00D8U+00F8      U+00D9U+00F9      U+00DAU+00FA      ",
      "U+00DBU+00FB      U+00DCU+00FC      U+00DDU+00FD      U+00DEU+00FE      U+0100U+0101      U+0102U+0103      U+0104U+0105      U+0106U+0107      U+0108U+0109      U+010AU+010B      U+010CU+010D      U+010EU+010F      U+0110U+0111      U+0112U+0113      U+0114U+0115      U+0116U+0117      U+0118U+0119      U+011AU+011B      U+011CU+011D      U+011EU+011F      U+0120U+0121      U+0122U+0123      U+0124U+0125      U+0126U+0127      U+0128U+0129      U+012AU+012B      ",
      "U+012CU+012D      U+012EU+012F      U+0130i     U+0307U+0132U+0133      U+0134U+0135      U+0136U+0137      U+0139U+013A      U+013BU+013C      U+013DU+013E      U+013FU+0140      U+0141U+0142      U+0143U+0144      U+0145U+0146      U+0147U+0148      U+014AU+014B      U+014CU+014D      U+014EU+014F      U+0150U+0151      U+0152U+0153      U+0154U+0155      U+0156U+0157      U+0158U+0159      U+015AU+015B      U+015CU+015D      U+015EU+015F      U+0160U+0161      ",
      "U+0162U+0163      U+0164U+0165      U+0166U+0167      U+0168U+0169      U+016AU+016B      U+016CU+016D      U+016EU+016F      U+0170U+0171      U+0172U+0173      U+0174U+0175      U+0176U+0177      U+0178U+00FF      U+0179U+017A      U+017BU+017C      U+017DU+017E      U+0181U+0253      U+0182U+0183      U+0184U+0185      U+0186U+0254      U+0187U+0188      U+0189U+0256      U+018AU+0257      U+018BU+018C      U+018EU+01DD      U+018FU+0259      U+0190U+025B      ",
      "U+0191U+0192      U+0193U+0260      U+0194U+0263      U+0196U+0269      U+0197U+0268      U+0198U+0199      U+019CU+026F      U+019DU+0272      U+019FU+0275      U+01A0U+01A1      U+01A2U+01A3      U+01A4U+01A5      U+01A6U+0280      U+01A7U+01A8      U+01A9U+0283      U+01ACU+01AD      U+01AEU+0288      U+01AFU+01B0      U+01B1U+028A      U+01B2U+028B      U+01B3U+01B4      U+01B5U+01B6      U+01B7U+0292      U+01B8U+01B9      U+01BCU+01BD      U+01C4U+01C6      ",
      "U+01C5U+01C6      U+01C7U+01C9      U+01C8U+01C9      U+01CAU+01CC      U+01CBU+01CC      U+01CDU+01CE      U+01CFU+01D0      U+01D1U+01D2      U+01D3U+01D4      U+01D5U+01D6      U+01D7U+01D8      U+01D9U+01DA      U+01DBU+01DC      U+01DEU+01DF      U+01E0U+01E1      U+01E2U+01E3      U+01E4U+01E5      U+01E6U+01E7      U+01E8U+01E9      U+01EAU+01EB      U+01ECU+01ED      U+01EEU+01EF      U+01F1U+01F3      U+01F2U+01F3      U+01F4U+01F5      U+01F6U+0195      ",
      "U+01F7U+01BF      U+01F8U+01F9      U+01FAU+01FB      U+01FCU+01FD      U+01FEU+01FF      U+0200U+0201      U+0202U+0203      U+0204U+0205      U+0206U+0207      U+0208U+0209      U+020AU+020B      U+020CU+020D      U+020EU+020F      U+0210U+0211      U+0212U+0213      U+0214U+0215      U+0216U+0217      U+0218U+0219      U+021AU+021B      U+021CU+021D      U+021EU+021F      U+0220U+019E      U+0222U+0223      U+0224U+0225      U+0226U+0227      U+0228U+0229      ",
      "U+022AU+022B      U+022CU+022D      U+022EU+022F      U+0230U+0231      U+0232U+0233      U+023AU+2C65      U+023BU+023C      U+023DU+019A      U+023EU+2C66      U+0241U+0242      U+0243U+0180      U+0244U+0289      U+0245U+028C      U+0246U+0247      U+0248U+0249      U+024AU+024B      U+024CU+024D      U+024EU+024F      U+0370U+0371      U+0372U+0373      U+0376U+0377      U+037FU+03F3      U+0386U+03AC      U+0388U+03AD      U+0389U+03AE      U+038AU+03AF      ",
      "U+038CU+03CC      U+038EU+03CD      U+038FU+03CE      U+0391U+03B1      U+0392U+03B2      U+0393U+03B3      U+0394U+03B4      U+0395U+03B5      U+0396U+03B6      U+0397U+03B7      U+0398U+03B8      U+0399U+03B9      U+039AU+03BA      U+039BU+03BB      U+039CU+03BC      U+039DU+03BD      U+039EU+03BE      U+039FU+03BF      U+03A0U+03C0      U+03A1U+03C1      U+03A3U+03C3      U+03A4U+03C4      U+03A5U+03C5      U+03A6U+03C6      U+03A7U+03C7      U+03A8U+03C8      ",
      "U+03A9U+03C9      U+03AAU+03CA      U+03ABU+03CB      U+03CFU+03D7      U+03D8U+03D9      U+03DAU+03DB      U+03DCU+03DD      U+03DEU+03DF      U+03E0U+03E1      U+03E2U+03E3      U+03E4U+03E5      U+03E6U+03E7      U+03E8U+03E9      U+03EAU+03EB      U+03ECU+03ED      U+03EEU+03EF      U+03F4U+03B8      U+03F7U+03F8      U+03F9U+03F2      U+03FAU+03FB      U+03FDU+037B      U+03FEU+037C      U+03FFU+037D      U+0400U+0450      U+0401U+0451      U+0402U+0452      ",
      "U+0403U+0453      U+0404U+0454      U+0405U+0455      U+0406U+0456      U+0407U+0457      U+0408U+0458      U+0409U+0459      U+040AU+045A      U+040BU+045B      U+040CU+045C      U+040DU+045D      U+040EU+045E      U+040FU+045F      U+0410U+0430      U+0411U+0431      U+0412U+0432      U+0413U+0433      U+0414U+0434      U+0415U+0435      U+0416U+0436      U+0417U+0437      U+0418U+0438      U+0419U+0439      U+041AU+043A      U+041BU+043B      U+041CU+043C      ",
      "U+041DU+043D      U+041EU+043E      U+041FU+043F      U+0420U+0440      U+0421U+0441      U+0422U+0442      U+0423U+0443      U+0424U+0444      U+0425U+0445      U+0426U+0446      U+0427U+0447      U+0428U+0448      U+0429U+0449      U+042AU+044A      U+042BU+044B      U+042CU+044C      U+042DU+044D      U+042EU+044E      U+042FU+044F      U+0460U+0461      U+0462U+0463      U+0464U+0465      U+0466U+0467      U+0468U+0469      U+046AU+046B      U+046CU+046D      ",
      "U+046EU+046F      U+0470U+0471      U+0472U+0473      U+0474U+0475      U+0476U+0477      U+0478U+0479      U+047AU+047B      U+047CU+047D      U+047EU+047F      U+0480U+0481      U+048AU+048B      U+048CU+048D      U+048EU+048F      U+0490U+0491      U+0492U+0493      U+0494U+0495      U+0496U+0497      U+0498U+0499      U+049AU+049B      U+049CU+049D      U+049EU+049F      U+04A0U+04A1      U+04A2U+04A3      U+04A4U+04A5      U+04A6U+04A7      U+04A8U+04A9      ",
      "U+04AAU+04AB      U+04ACU+04AD      U+04AEU+04AF      U+04B0U+04B1      U+04B2U+04B3      U+04B4U+04B5      U+04B6U+04B7      U+04B8U+04B9      U+04BAU+04BB      U+04BCU+04BD      U+04BEU+04BF      U+04C0U+04CF      U+04C1U+04C2      U+04C3U+04C4      U+04C5U+04C6      U+04C7U+04C8      U+04C9U+04CA      U+04CBU+04CC      U+04CDU+04CE      U+04D0U+04D1      U+04D2U+04D3      U+04D4U+04D5      U+04D6U+04D7      U+04D8U+04D9      U+04DAU+04DB      U+04DCU+04DD      ",
      "U+04DEU+04DF      U+04E0U+04E1      U+04E2U+04E3      U+04E4U+04E5      U+04E6U+04E7      U+04E8U+04E9      U+04EAU+04EB      U+04ECU+04ED      U+04EEU+04EF      U+04F0U+04F1      U+04F2U+04F3      U+04F4U+04F5      U+04F6U+04F7      U+04F8U+04F9      U+04FAU+04FB      U+04FCU+04FD      U+04FEU+04FF      U+0500U+0501      U+0502U+0503      U+0504U+0505      U+0506U+0507      U+0508U+0509      U+050AU+050B      U+050CU+050D      U+050EU+050F      U+0510U+0511      ",
      "U+0512U+0513      U+0514U+0515      U+0516U+0517      U+0518U+0519      U+051AU+051B      U+051CU+051D      U+051EU+051F      U+0520U+0521      U+0522U+0523      U+0524U+0525      U+0526U+0527      U+0528U+0529      U+052AU+052B      U+052CU+052D      U+052EU+052F      U+0531U+0561      U+0532U+0562      U+0533U+0563      U+0534U+0564      U+0535U+0565      U+0536U+0566      U+0537U+0567      U+0538U+0568      U+0539U+0569      U+053AU+056A      U+053BU+056B      ",
      "U+053CU+056C      U+053DU+056D      U+053EU+056E      U+053FU+056F      U+0540U+0570      U+0541U+0571      U+0542U+0572      U+0543U+0573      U+0544U+0574      U+0545U+0575      U+0546U+0576      U+0547U+0577      U+0548U+0578      U+0549U+0579      U+054AU+057A      U+054BU+057B      U+054CU+057C      U+054DU+057D      U+054EU+057E      U+054FU+057F      U+0550U+0580      U+0551U+0581      U+0552U+0582      U+0553U+0583      U+0554U+0584      U+0555U+0585      ",
      "U+0556U+0586      U+10A0U+2D00      U+10A1U+2D01      U+10A2U+2D02      U+10A3U+2D03      U+10A4U+2D04      U+10A5U+2D05      U+10A6U+2D06      U+10A7U+2D07      U+10A8U+2D08      U+10A9U+2D09      U+10AAU+2D0A      U+10ABU+2D0B      U+10ACU+2D0C      U+10ADU+2D0D      U+10AEU+2D0E      U+10AFU+2D0F      U+10B0U+2D10      U+10B1U+2D11      U+10B2U+2D12      U+10B3U+2D13      U+10B4U+2D14      U+10B5U+2D15      U+10B6U+2D16      U+10B7U+2D17      U+10B8U+2D18      ",
      "U+10B9U+2D19      U+10BAU+2D1A      U+10BBU+2D1B      U+10BCU+2D1C      U+10BDU+2D1D      U+10BEU+2D1E      U+10BFU+2D1F      U+10C0U+2D20      U+10C1U+2D21      U+10C2U+2D22      U+10C3U+2D23      U+10C4U+2D24      U+10C5U+2D25      U+10C7U+2D27      U+10CDU+2D2D      U+13A0U+AB70      U+13A1U+AB71      U+13A2U+AB72      U+13A3U+AB73      U+13A4U+AB74      U+13A5U+AB75      U+13A6U+AB76      U+13A7U+AB77      U+13A8U+AB78      U+13A9U+AB79      U+13AAU+AB7A      ",
      "U+13ABU+AB7B      U+13ACU+AB7C      U+13ADU+AB7D      U+13AEU+AB7E      U+13AFU+AB7F      U+13B0U+AB80      U+13B1U+AB81      U+13B2U+AB82      U+13B3U+AB83      U+13B4U+AB84      U+13B5U+AB85      U+13B6U+AB86      U+13B7U+AB87      U+13B8U+AB88      U+13B9U+AB89      U+13BAU+AB8A      U+13BBU+AB8B      U+13BCU+AB8C      U+13BDU+AB8D      U+13BEU+AB8E      U+13BFU+AB8F      U+13C0U+AB90      U+13C1U+AB91      U+13C2U+AB92      U+13C3U+AB93      U+13C4U+AB94      ",
      "U+13C5U+AB95      U+13C6U+AB96      U+13C7U+AB97      U+13C8U+AB98      U+13C9U+AB99      U+13CAU+AB9A      U+13CBU+AB9B      U+13CCU+AB9C      U+13CDU+AB9D      U+13CEU+AB9E      U+13CFU+AB9F      U+13D0U+ABA0      U+13D1U+ABA1      U+13D2U+ABA2      U+13D3U+ABA3      U+13D4U+ABA4      U+13D5U+ABA5      U+13D6U+ABA6      U+13D7U+ABA7      U+13D8U+ABA8      U+13D9U+ABA9      U+13DAU+ABAA      U+13DBU+ABAB      U+13DCU+ABAC      U+13DDU+ABAD      U+13DEU+ABAE      ",
      "U+13DFU+ABAF      U+13E0U+ABB0      U+13E1U+ABB1      U+13E2U+ABB2      U+13E3U+ABB3      U+13E4U+ABB4      U+13E5U+ABB5      U+13E6U+ABB6      U+13E7U+ABB7      U+13E8U+ABB8      U+13E9U+ABB9      U+13EAU+ABBA      U+13EBU+ABBB      U+13ECU+ABBC      U+13EDU+ABBD      U+13EEU+ABBE      U+13EFU+ABBF      U+13F0U+13F8      U+13F1U+13F9      U+13F2U+13FA      U+13F3U+13FB      U+13F4U+13FC      U+13F5U+13FD      U+1C89U+1C8A      U+1C90U+10D0      U+1C91U+10D1      ",
      "U+1C92U+10D2      U+1C93U+10D3      U+1C94U+10D4      U+1C95U+10D5      U+1C96U+10D6      U+1C97U+10D7      U+1C98U+10D8      U+1C99U+10D9      U+1C9AU+10DA      U+1C9BU+10DB      U+1C9CU+10DC      U+1C9DU+10DD      U+1C9EU+10DE      U+1C9FU+10DF      U+1CA0U+10E0      U+1CA1U+10E1      U+1CA2U+10E2      U+1CA3U+10E3      U+1CA4U+10E4      U+1CA5U+10E5      U+1CA6U+10E6      U+1CA7U+10E7      U+1CA8U+10E8      U+1CA9U+10E9      U+1CAAU+10EA      U+1CABU+10EB      ",
      "U+1CACU+10EC      U+1CADU+10ED      U+1CAEU+10EE      U+1CAFU+10EF      U+1CB0U+10F0      U+1CB1U+10F1      U+1CB2U+10F2      U+1CB3U+10F3      U+1CB4U+10F4      U+1CB5U+10F5      U+1CB6U+10F6      U+1CB7U+10F7      U+1CB8U+10F8      U+1CB9U+10F9      U+1CBAU+10FA      U+1CBDU+10FD      U+1CBEU+10FE      U+1CBFU+10FF      U+1E00U+1E01      U+1E02U+1E03      U+1E04U+1E05      U+1E06U+1E07      U+1E08U+1E09      U+1E0AU+1E0B      U+1E0CU+1E0D      U+1E0EU+1E0F      ",
      "U+1E10U+1E11      U+1E12U+1E13      U+1E14U+1E15      U+1E16U+1E17      U+1E18U+1E19      U+1E1AU+1E1B      U+1E1CU+1E1D      U+1E1EU+1E1F      U+1E20U+1E21      U+1E22U+1E23      U+1E24U+1E25      U+1E26U+1E27      U+1E28U+1E29      U+1E2AU+1E2B      U+1E2CU+1E2D      U+1E2EU+1E2F      U+1E30U+1E31      U+1E32U+1E33      U+1E34U+1E35      U+1E36U+1E37      U+1E38U+1E39      U+1E3AU+1E3B      U+1E3CU+1E3D      U+1E3EU+1E3F      U+1E40U+1E41      U+1E42U+1E43      ",
      "U+1E44U+1E45      U+1E46U+1E47      U+1E48U+1E49      U+1E4AU+1E4B      U+1E4CU+1E4D      U+1E4EU+1E4F      U+1E50U+1E51      U+1E52U+1E53      U+1E54U+1E55      U+1E56U+1E57      U+1E58U+1E59      U+1E5AU+1E5B      U+1E5CU+1E5D      U+1E5EU+1E5F      U+1E60U+1E61      U+1E62U+1E63      U+1E64U+1E65      U+1E66U+1E67      U+1E68U+1E69      U+1E6AU+1E6B      U+1E6CU+1E6D      U+1E6EU+1E6F      U+1E70U+1E71      U+1E72U+1E73      U+1E74U+1E75      U+1E76U+1E77      ",
      "U+1E78U+1E79      U+1E7AU+1E7B      U+1E7CU+1E7D      U+1E7EU+1E7F      U+1E80U+1E81      U+1E82U+1E83      U+1E84U+1E85      U+1E86U+1E87      U+1E88U+1E89      U+1E8AU+1E8B      U+1E8CU+1E8D      U+1E8EU+1E8F      U+1E90U+1E91      U+1E92U+1E93      U+1E94U+1E95      U+1E9EU+00DF      U+1EA0U+1EA1      U+1EA2U+1EA3      U+1EA4U+1EA5      U+1EA6U+1EA7      U+1EA8U+1EA9      U+1EAAU+1EAB      U+1EACU+1EAD      U+1EAEU+1EAF      U+1EB0U+1EB1      U+1EB2U+1EB3      ",
      "U+1EB4U+1EB5      U+1EB6U+1EB7      U+1EB8U+1EB9      U+1EBAU+1EBB      U+1EBCU+1EBD      U+1EBEU+1EBF      U+1EC0U+1EC1      U+1EC2U+1EC3      U+1EC4U+1EC5      U+1EC6U+1EC7      U+1EC8U+1EC9      U+1ECAU+1ECB      U+1ECCU+1ECD      U+1ECEU+1ECF      U+1ED0U+1ED1      U+1ED2U+1ED3      U+1ED4U+1ED5      U+1ED6U+1ED7      U+1ED8U+1ED9      U+1EDAU+1EDB      U+1EDCU+1EDD      U+1EDEU+1EDF      U+1EE0U+1EE1      U+1EE2U+1EE3      U+1EE4U+1EE5      U+1EE6U+1EE7      ",
      "U+1EE8U+1EE9      U+1EEAU+1EEB      U+1EECU+1EED      U+1EEEU+1EEF      U+1EF0U+1EF1      U+1EF2U+1EF3      U+1EF4U+1EF5      U+1EF6U+1EF7      U+1EF8U+1EF9      U+1EFAU+1EFB      U+1EFCU+1EFD      U+1EFEU+1EFF      U+1F08U+1F00      U+1F09U+1F01      U+1F0AU+1F02      U+1F0BU+1F03      U+1F0CU+1F04      U+1F0DU+1F05      U+1F0EU+1F06      U+1F0FU+1F07      U+1F18U+1F10      U+1F19U+1F11      U+1F1AU+1F12      U+1F1BU+1F13      U+1F1CU+1F14      U+1F1DU+1F15      ",
      "U+1F28U+1F20      U+1F29U+1F21      U+1F2AU+1F22      U+1F2BU+1F23      U+1F2CU+1F24      U+1F2DU+1F25      U+1F2EU+1F26      U+1F2FU+1F27      U+1F38U+1F30      U+1F39U+1F31      U+1F3AU+1F32      U+1F3BU+1F33      U+1F3CU+1F34      U+1F3DU+1F35      U+1F3EU+1F36      U+1F3FU+1F37      U+1F48U+1F40      U+1F49U+1F41      U+1F4AU+1F42      U+1F4BU+1F43      U+1F4CU+1F44      U+1F4DU+1F45      U+1F59U+1F51      U+1F5BU+1F53      U+1F5DU+1F55      U+1F5FU+1F57      ",
      "U+1F68U+1F60      U+1F69U+1F61      U+1F6AU+1F62      U+1F6BU+1F63      U+1F6CU+1F64      U+1F6DU+1F65      U+1F6EU+1F66      U+1F6FU+1F67      U+1F88U+1F80      U+1F89U+1F81      U+1F8AU+1F82      U+1F8BU+1F83      U+1F8CU+1F84      U+1F8DU+1F85      U+1F8EU+1F86      U+1F8FU+1F87      U+1F98U+1F90      U+1F99U+1F91      U+1F9AU+1F92      U+1F9BU+1F93      U+1F9CU+1F94      U+1F9DU+1F95      U+1F9EU+1F96      U+1F9FU+1F97      U+1FA8U+1FA0      U+1FA9U+1FA1      ",
      "U+1FAAU+1FA2      U+1FABU+1FA3      U+1FACU+1FA4      U+1FADU+1FA5      U+1FAEU+1FA6      U+1FAFU+1FA7      U+1FB8U+1FB0      U+1FB9U+1FB1      U+1FBAU+1F70      U+1FBBU+1F71      U+1FBCU+1FB3      U+1FC8U+1F72      U+1FC9U+1F73      U+1FCAU+1F74      U+1FCBU+1F75      U+1FCCU+1FC3      U+1FD8U+1FD0      U+1FD9U+1FD1      U+1FDAU+1F76      U+1FDBU+1F77      U+1FE8U+1FE0      U+1FE9U+1FE1      U+1FEAU+1F7A      U+1FEBU+1F7B      U+1FECU+1FE5      U+1FF8U+1F78      ",
      "U+1FF9U+1F79      U+1FFAU+1F7C      U+1FFBU+1F7D      U+1FFCU+1FF3      U+2126U+03C9      U+212Ak           U+212BU+00E5      U+2132U+214E      U+2160U+2170      U+2161U+2171      U+2162U+2172      U+2163U+2173      U+2164U+2174      U+2165U+2175      U+2166U+2176      U+2167U+2177      U+2168U+2178      U+2169U+2179      U+216AU+217A      U+216BU+217B      U+216CU+217C      U+216DU+217D      U+216EU+217E      U+216FU+217F      U+2183U+2184      U+24B6U+24D0      ",
      "U+24B7U+24D1      U+24B8U+24D2      U+24B9U+24D3      U+24BAU+24D4      U+24BBU+24D5      U+24BCU+24D6      U+24BDU+24D7      U+24BEU+24D8      U+24BFU+24D9      U+24C0U+24DA      U+24C1U+24DB      U+24C2U+24DC      U+24C3U+24DD      U+24C4U+24DE      U+24C5U+24DF      U+24C6U+24E0      U+24C7U+24E1      U+24C8U+24E2      U+24C9U+24E3      U+24CAU+24E4      U+24CBU+24E5      U+24CCU+24E6      U+24CDU+24E7      U+24CEU+24E8      U+24CFU+24E9      U+2C00U+2C30      ",
      "U+2C01U+2C31      U+2C02U+2C32      U+2C03U+2C33      U+2C04U+2C34      U+2C05U+2C35      U+2C06U+2C36      U+2C07U+2C37      U+2C08U+2C38      U+2C09U+2C39      U+2C0AU+2C3A      U+2C0BU+2C3B      U+2C0CU+2C3C      U+2C0DU+2C3D      U+2C0EU+2C3E      U+2C0FU+2C3F      U+2C10U+2C40      U+2C11U+2C41      U+2C12U+2C42      U+2C13U+2C43      U+2C14U+2C44      U+2C15U+2C45      U+2C16U+2C46      U+2C17U+2C47      U+2C18U+2C48      U+2C19U+2C49      U+2C1AU+2C4A      ",
      "U+2C1BU+2C4B      U+2C1CU+2C4C      U+2C1DU+2C4D      U+2C1EU+2C4E      U+2C1FU+2C4F      U+2C20U+2C50      U+2C21U+2C51      U+2C22U+2C52      U+2C23U+2C53      U+2C24U+2C54      U+2C25U+2C55      U+2C26U+2C56      U+2C27U+2C57      U+2C28U+2C58      U+2C29U+2C59      U+2C2AU+2C5A      U+2C2BU+2C5B      U+2C2CU+2C5C      U+2C2DU+2C5D      U+2C2EU+2C5E      U+2C2FU+2C5F      U+2C60U+2C61      U+2C62U+026B      U+2C63U+1D7D      U+2C64U+027D      U+2C67U+2C68      ",
      "U+2C69U+2C6A      U+2C6BU+2C6C      U+2C6DU+0251      U+2C6EU+0271      U+2C6FU+0250      U+2C70U+0252      U+2C72U+2C73      U+2C75U+2C76      U+2C7EU+023F      U+2C7FU+0240      U+2C80U+2C81      U+2C82U+2C83      U+2C84U+2C85      U+2C86U+2C87      U+2C88U+2C89      U+2C8AU+2C8B      U+2C8CU+2C8D      U+2C8EU+2C8F      U+2C90U+2C91      U+2C92U+2C93      U+2C94U+2C95      U+2C96U+2C97      U+2C98U+2C99      U+2C9AU+2C9B      U+2C9CU+2C9D      U+2C9EU+2C9F      ",
      "U+2CA0U+2CA1      U+2CA2U+2CA3      U+2CA4U+2CA5      U+2CA6U+2CA7      U+2CA8U+2CA9      U+2CAAU+2CAB      U+2CACU+2CAD      U+2CAEU+2CAF      U+2CB0U+2CB1      U+2CB2U+2CB3      U+2CB4U+2CB5      U+2CB6U+2CB7      U+2CB8U+2CB9      U+2CBAU+2CBB      U+2CBCU+2CBD      U+2CBEU+2CBF      U+2CC0U+2CC1      U+2CC2U+2CC3      U+2CC4U+2CC5      U+2CC6U+2CC7      U+2CC8U+2CC9      U+2CCAU+2CCB      U+2CCCU+2CCD      U+2CCEU+2CCF      U+2CD0U+2CD1      U+2CD2U+2CD3      ",
      "U+2CD4U+2CD5      U+2CD6U+2CD7      U+2CD8U+2CD9      U+2CDAU+2CDB      U+2CDCU+2CDD      U+2CDEU+2CDF      U+2CE0U+2CE1      U+2CE2U+2CE3      U+2CEBU+2CEC      U+2CEDU+2CEE      U+2CF2U+2CF3      U+A640U+A641      U+A642U+A643      U+A644U+A645      U+A646U+A647      U+A648U+A649      U+A64AU+A64B      U+A64CU+A64D      U+A64EU+A64F      U+A650U+A651      U+A652U+A653      U+A654U+A655      U+A656U+A657      U+A658U+A659      U+A65AU+A65B      U+A65CU+A65D      ",
      "U+A65EU+A65F      U+A660U+A661      U+A662U+A663      U+A664U+A665      U+A666U+A667      U+A668U+A669      U+A66AU+A66B      U+A66CU+A66D      U+A680U+A681      U+A682U+A683      U+A684U+A685      U+A686U+A687      U+A688U+A689      U+A68AU+A68B      U+A68CU+A68D      U+A68EU+A68F      U+A690U+A691      U+A692U+A693      U+A694U+A695      U+A696U+A697      U+A698U+A699      U+A69AU+A69B      U+A722U+A723      U+A724U+A725      U+A726U+A727      U+A728U+A729      ",
      "U+A72AU+A72B      U+A72CU+A72D      U+A72EU+A72F      U+A732U+A733      U+A734U+A735      U+A736U+A737      U+A738U+A739      U+A73AU+A73B      U+A73CU+A73D      U+A73EU+A73F      U+A740U+A741      U+A742U+A743      U+A744U+A745      U+A746U+A747      U+A748U+A749      U+A74AU+A74B      U+A74CU+A74D      U+A74EU+A74F      U+A750U+A751      U+A752U+A753      U+A754U+A755      U+A756U+A757      U+A758U+A759      U+A75AU+A75B      U+A75CU+A75D      U+A75EU+A75F      ",
      "U+A760U+A761      U+A762U+A763      U+A764U+A765      U+A766U+A767      U+A768U+A769      U+A76AU+A76B      U+A76CU+A76D      U+A76EU+A76F      U+A779U+A77A      U+A77BU+A77C      U+A77DU+1D79      U+A77EU+A77F      U+A780U+A781      U+A782U+A783      U+A784U+A785      U+A786U+A787      U+A78BU+A78C      U+A78DU+0265      U+A790U+A791      U+A792U+A793      U+A796U+A797      U+A798U+A799      U+A79AU+A79B      U+A79CU+A79D      U+A79EU+A79F      U+A7A0U+A7A1      ",
      "U+A7A2U+A7A3      U+A7A4U+A7A5      U+A7A6U+A7A7      U+A7A8U+A7A9      U+A7AAU+0266      U+A7ABU+025C      U+A7ACU+0261      U+A7ADU+026C      U+A7AEU+026A      U+A7B0U+029E      U+A7B1U+0287      U+A7B2U+029D      U+A7B3U+AB53      U+A7B4U+A7B5      U+A7B6U+A7B7      U+A7B8U+A7B9      U+A7BAU+A7BB      U+A7BCU+A7BD      U+A7BEU+A7BF      U+A7C0U+A7C1      U+A7C2U+A7C3      U+A7C4U+A794      U+A7C5U+0282      U+A7C6U+1D8E      U+A7C7U+A7C8      U+A7C9U+A7CA      ",
      "U+A7CBU+0264      U+A7CCU+A7CD      U+A7CEU+A7CF      U+A7D0U+A7D1      U+A7D2U+A7D3      U+A7D4U+A7D5      U+A7D6U+A7D7      U+A7D8U+A7D9      U+A7DAU+A7DB      U+A7DCU+019B      U+A7F5U+A7F6      U+FF21U+FF41      U+FF22U+FF42      U+FF23U+FF43      U+FF24U+FF44      U+FF25U+FF45      U+FF26U+FF46      U+FF27U+FF47      U+FF28U+FF48      U+FF29U+FF49      U+FF2AU+FF4A      U+FF2BU+FF4B      U+FF2CU+FF4C      U+FF2DU+FF4D      U+FF2EU+FF4E      U+FF2FU+FF4F      ",
      "U+FF30U+FF50      U+FF31U+FF51      U+FF32U+FF52      U+FF33U+FF53      U+FF34U+FF54      U+FF35U+FF55      U+FF36U+FF56      U+FF37U+FF57      U+FF38U+FF58      U+FF39U+FF59      U+FF3AU+FF5A      "
    >>

\* toUpperCase of a character outside the Basic Multilingual Plane, two code
\* units in a string: rows of four fields, the surrogate pair of the character and
\* the surrogate pair of the character it becomes

UpperCasePairs ==
    <<
      "U+D801U+DC28U+D801U+DC00U+D801U+DC29U+D801U+DC01U+D801U+DC2AU+D801U+DC02U+D801U+DC2BU+D801U+DC03U+D801U+DC2CU+D801U+DC04U+D801U+DC2DU+D801U+DC05U+D801U+DC2EU+D801U+DC06U+D801U+DC2FU+D801U+DC07U+D801U+DC30U+D801U+DC08U+D801U+DC31U+D801U+DC09U+D801U+DC32U+D801U+DC0AU+D801U+DC33U+D801U+DC0BU+D801U+DC34U+D801U+DC0CU+D801U+DC35U+D801U+DC0DU+D801U+DC36U+D801U+DC0EU+D801U+DC37U+D801U+DC0FU+D801U+DC38U+D801U+DC10U+D801U+DC39U+D801U+DC11U+D801U+DC3AU+D801U+DC12U+D801U+DC3BU+D801U+DC13",
      "U+D801U+DC3CU+D801U+DC14U+D801U+DC3DU+D801U+DC15U+D801U+DC3EU+D801U+DC16U+D801U+DC3FU+D801U+DC17U+D801U+DC40U+D801U+DC18U+D801U+DC41U+D801U+DC19U+D801U+DC42U+D801U+DC1AU+D801U+DC43U+D801U+DC1BU+D801U+DC44U+D801U+DC1CU+D801U+DC45U+D801U+DC1DU+D801U+DC46U+D801U+DC1EU+D801U+DC47U+D801U+DC1FU+D801U+DC48U+D801U+DC20U+D801U+DC49U+D801U+DC21U+D801U+DC4AU+D801U+DC22U+D801U+DC4BU+D801U+DC23U+D801U+DC4CU+D801U+DC24U+D801U+DC4DU+D801U+DC25U+D801U+DC4EU+D801U+DC26U+D801U+DC4FU+D801U+DC27",
      "U+D801U+DCD8U+D801U+DCB0U+D801U+DCD9U+D801U+DCB1U+D801U+DCDAU+D801U+DCB2U+D801U+DCDBU+D801U+DCB3U+D801U+DCDCU+D801U+DCB4U+D801U+DCDDU+D801U+DCB5U+D801U+DCDEU+D801U+DCB6U+D801U+DCDFU+D801U+DCB7U+D801U+DCE0U+D801U+DCB8U+D801U+DCE1U+D801U+DCB9U+D801U+DCE2U+D801U+DCBAU+D801U+DCE3U+D801U+DCBBU+D801U+DCE4U+D801U+DCBCU+D801U+DCE5U+D801U+DCBDU+D801U+DCE6U+D801U+DCBEU+D801U+DCE7U+D801U+DCBFU+D801U+DCE8U+D801U+DCC0U+D801U+DCE9U+D801U+DCC1U+D801U+DCEAU+D801U+DCC2U+D801U+DCEBU+D801U+DCC3",
      "U+D801U+DCECU+D801U+DCC4U+D801U+DCEDU+D801U+DCC5U+D801U+DCEEU+D801U+DCC6U+D801U+DCEFU+D801U+DCC7U+D801U+DCF0U+D801U+DCC8U+D801U+DCF1U+D801U+DCC9U+D801U+DCF2U+D801U+DCCAU+D801U+DCF3U+D801U+DCCBU+D801U+DCF4U+D801U+DCCCU+D801U+DCF5U+D801U+DCCDU+D801U+DCF6U+D801U+DCCEU+D801U+DCF7U+D801U+DCCFU+D801U+DCF8U+D801U+DCD0U+D801U+DCF9U+D801U+DCD1U+D801U+DCFAU+D801U+DCD2U+D801U+DCFBU+D801U+DCD3U+D801U+DD97U+D801U+DD70U+D801U+DD98U+D801U+DD71U+D801U+DD99U+D801U+DD72U+D801U+DD9AU+D801U+DD73",
      "U+D801U+DD9BU+D801U+DD74U+D801U+DD9CU+D801U+DD75U+D801U+DD9DU+D801U+DD76U+D801U+DD9EU+D801U+DD77U+D801U+DD9FU+D801U+DD78U+D801U+DDA0U+D801U+DD79U+D801U+DDA1U+D801U+DD7AU+D801U+DDA3U+D801U+DD7CU+D801U+DDA4U+D801U+DD7DU+D801U+DDA5U+D801U+DD7EU+D801U+DDA6U+D801U+DD7FU+D801U+DDA7U+D801U+DD80U+D801U+DDA8U+D801U+DD81U+D801U+DDA9U+D801U+DD82U+D801U+DDAAU+D801U+DD83U+D801U+DDABU+D801U+DD84U+D801U+DDACU+D801U+DD85U+D801U+DDADU+D801U+DD86U+D801U+DDAEU+D801U+DD87U+D801U+DDAFU+D801U+DD88",
      "U+D801U+DDB0U+D801U+DD89U+D801U+DDB1U+D801U+DD8AU+D801U+DDB3U+D801U+DD8CU+D801U+DDB4U+D801U+DD8DU+D801U+DDB5U+D801U+DD8EU+D801U+DDB6U+D801U+DD8FU+D801U+DDB7U+D801U+DD90U+D801U+DDB8U+D801U+DD91U+D801U+DDB9U+D801U+DD92U+D801U+DDBBU+D801U+DD94U+D801U+DDBCU+D801U+DD95U+D803U+DCC0U+D803U+DC80U+D803U+DCC1U+D803U+DC81U+D803U+DCC2U+D803U+DC82U+D803U+DCC3U+D803U+DC83U+D803U+DCC4U+D803U+DC84U+D803U+DCC5U+D803U+DC85U+D803U+DCC6U+D803U+DC86U+D803U+DCC7U+D803U+DC87U+D803U+DCC8U+D803U+DC88",
      "U+D803U+DCC9U+D803U+DC89U+D803U+DCCAU+D803U+DC8AU+D803U+DCCBU+D803U+DC8BU+D803U+DCCCU+D803U+DC8CU+D803U+DCCDU+D803U+DC8DU+D803U+DCCEU+D803U+DC8EU+D803U+DCCFU+D803U+DC8FU+D803U+DCD0U+D803U+DC90U+D803U+DCD1U+D803U+DC91U+D803U+DCD2U+D803U+DC92U+D803U+DCD3U+D803U+DC93U+D803U+DCD4U+D803U+DC94U+D803U+DCD5U+D803U+DC95U+D803U+DCD6U+D803U+DC96U+D803U+DCD7U+D803U+DC97U+D803U+DCD8U+D803U+DC98U+D803U+DCD9U+D803U+DC99U+D803U+DCDAU+D803U+DC9AU+D803U+DCDBU+D803U+DC9BU+D803U+DCDCU+D803U+DC9C",
      "U+D803U+DCDDU+D803U+DC9DU+D803U+DCDEU+D803U+DC9EU+D803U+DCDFU+D803U+DC9FU+D803U+DCE0U+D803U+DCA0U+D803U+DCE1U+D803U+DCA1U+D803U+DCE2U+D803U+DCA2U+D803U+DCE3U+D803U+DCA3U+D803U+DCE4U+D803U+DCA4U+D803U+DCE5U+D803U+DCA5U+D803U+DCE6U+D803U+DCA6U+D803U+DCE7U+D803U+DCA7U+D803U+DCE8U+D803U+DCA8U+D803U+DCE9U+D803U+DCA9U+D803U+DCEAU+D803U+DCAAU+D803U+DCEBU+D803U+DCABU+D803U+DCECU+D803U+DCACU+D803U+DCEDU+D803U+DCADU+D803U+DCEEU+D803U+DCAEU+D803U+DCEFU+D803U+DCAFU+D803U+DCF0U+D803U+DCB0",
      "U+D803U+DCF1U+D803U+DCB1U+D803U+DCF2U+D803U+DCB2U+D803U+DD70U+D803U+DD50U+D803U+DD71U+D803U+DD51U+D803U+DD72U+D803U+DD52U+D803U+DD73U+D803U+DD53U+D803U+DD74U+D803U+DD54U+D803U+DD75U+D803U+DD55U+D803U+DD76U+D803U+DD56U+D803U+DD77U+D803U+DD57U+D803U+DD78U+D803U+DD58U+D803U+DD79U+D803U+DD59U+D803U+DD7AU+D803U+DD5AU+D803U+DD7BU+D803U+DD5BU+D803U+DD7CU+D803U+DD5CU+D803U+DD7DU+D803U+DD5DU+D803U+DD7EU+D803U+DD5EU+D803U+DD7FU+D803U+DD5FU+D803U+DD80U+D803U+DD60U+D803U+DD81U+D803U+DD61",
      "U+D803U+DD82U+D803U+DD62U+D803U+DD83U+D803U+DD63U+D803U+DD84U+D803U+DD64U+D803U+DD85U+D803U+DD65U+D806U+DCC0U+D806U+DCA0U+D806U+DCC1U+D806U+DCA1U+D806U+DCC2U+D806U+DCA2U+D806U+DCC3U+D806U+DCA3U+D806U+DCC4U+D806U+DCA4U+D806U+DCC5U+D806U+DCA5U+D806U+DCC6U+D806U+DCA6U+D806U+DCC7U+D806U+DCA7U+D806U+DCC8U+D806U+DCA8U+D806U+DCC9U+D806U+DCA9U+D806U+DCCAU+D806U+DCAAU+D806U+DCCBU+D806U+DCABU+D806U+DCCCU+D806U+DCACU+D806U+DCCDU+D806U+DCADU+D806U+DCCEU+D806U+DCAEU+D806U+DCCFU+D806U+DCAF",
      "U+D806U+DCD0U+D806U+DCB0U+D806U+DCD1U+D806U+DCB1U+D806U+DCD2U+D806U+DCB2U+D806U+DCD3U+D806U+DCB3U+D806U+DCD4U+D806U+DCB4U+D806U+DCD5U+D806U+DCB5U+D806U+DCD6U+D806U+DCB6U+D806U+DCD7U+D806U+DCB7U+D806U+DCD8U+D806U+DCB8U+D806U+DCD9U+D806U+DCB9U+D806U+DCDAU+D806U+DCBAU+D806U+DCDBU+D806U+DCBBU+D806U+DCDCU+D806U+DCBCU+D806U+DCDDU+D806U+DCBDU+D806U+DCDEU+D806U+DCBEU+D806U+DCDFU+D806U+DCBFU+D81BU+DE60U+D81BU+DE40U+D81BU+DE61U+D81BU+DE41U+D81BU+DE62U+D81BU+DE42U+D81BU+DE63U+D81BU+DE43",
      "U+D81BU+DE64U+D81BU+DE44U+D81BU+DE65U+D81BU+DE45U+D81BU+DE66U+D81BU+DE46U+D81BU+DE67U+D81BU+DE47U+D81BU+DE68U+D81BU+DE48U+D81BU+DE69U+D81BU+DE49U+D81BU+DE6AU+D81BU+DE4AU+D81BU+DE6BU+D81BU+DE4BU+D81BU+DE6CU+D81BU+DE4CU+D81BU+DE6DU+D81BU+DE4DU+D81BU+DE6EU+D81BU+DE4EU+D81BU+DE6FU+D81BU+DE4FU+D81BU+DE70U+D81BU+DE50U+D81BU+DE71U+D81BU+DE51U+D81BU+DE72U+D81BU+DE52U+D81BU+DE73U+D81BU+DE53U+D81BU+DE74U+D81BU+DE54U+D81BU+DE75U+D81BU+DE55U+D81BU+DE76U+D81BU+DE56U+D81BU+DE77U+D81BU+DE57",
      "U+D81BU+DE78U+D81BU+DE58U+D81BU+DE79U+D81BU+DE59U+D81BU+DE7AU+D81BU+DE5AU+D81BU+DE7BU+D81BU+DE5BU+D81BU+DE7CU+D81BU+DE5CU+D81BU+DE7DU+D81BU+DE5DU+D81BU+DE7EU+D81BU+DE5EU+D81BU+DE7FU+D81BU+DE5FU+D81BU+DEBBU+D81BU+DEA0U+D81BU+DEBCU+D81BU+DEA1U+D81BU+DEBDU+D81BU+DEA2U+D81BU+DEBEU+D81BU+DEA3U+D81BU+DEBFU+D81BU+DEA4U+D81BU+DEC0U+D81BU+DEA5U+D81BU+DEC1U+D81BU+DEA6U+D81BU+DEC2U+D81BU+DEA7U+D81BU+DEC3U+D81BU+DEA8U+D81BU+DEC4U+D81BU+DEA9U+D81BU+DEC5U+D81BU+DEAAU+D81BU+DEC6U+D81BU+DEAB",
      "U+D81BU+DEC7U+D81BU+DEACU+D81BU+DEC8U+D81BU+DEADU+D81BU+DEC9U+D81BU+DEAEU+D81BU+DECAU+D81BU+DEAFU+D81BU+DECBU+D81BU+DEB0U+D81BU+DECCU+D81BU+DEB1U+D81BU+DECDU+D81BU+DEB2U+D81BU+DECEU+D81BU+DEB3U+D81BU+DECFU+D81BU+DEB4U+D81BU+DED0U+D81BU+DEB5U+D81BU+DED1U+D81BU+DEB6U+D81BU+DED2U+D81BU+DEB7U+D81BU+DED3U+D81BU+DEB8U+D83AU+DD22U+D83AU+DD00U+D83AU+DD23U+D83AU+DD01U+D83AU+DD24U+D83AU+DD02U+D83AU+DD25U+D83AU+DD03U+D83AU+DD26U+D83AU+DD04U+D83AU+DD27U+D83AU+DD05U+D83AU+DD28U+D83AU+DD06",
      "U+D83AU+DD29U+D83AU+DD07U+D83AU+DD2AU+D83AU+DD08U+D83AU+DD2BU+D83AU+DD09U+D83AU+DD2CU+D83AU+DD0AU+D83AU+DD2DU+D83AU+DD0BU+D83AU+DD2EU+D83AU+DD0CU+D83AU+DD2FU+D83AU+DD0DU+D83AU+DD30U+D83AU+DD0EU+D83AU+DD31U+D83AU+DD0FU+D83AU+DD32U+D83AU+DD10U+D83AU+DD33U+D83AU+DD11U+D83AU+DD34U+D83AU+DD12U+D83AU+DD35U+D83AU+DD13U+D83AU+DD36U+D83AU+DD14U+D83AU+DD37U+D83AU+DD15U+D83AU+DD38U+D83AU+DD16U+D83AU+DD39U+D83AU+DD17U+D83AU+DD3AU+D83AU+DD18U+D83AU+DD3BU+D83AU+DD19U+D83AU+DD3CU+D83AU+DD1A",
      "U+D83AU+DD3DU+D83AU+DD1BU+D83AU+DD3EU+D83AU+DD1CU+D83AU+DD3FU+D83AU+DD1DU+D83AU+DD40U+D83AU+DD1EU+D83AU+DD41U+D83AU+DD1FU+D83AU+DD42U+D83AU+DD20U+D83AU+DD43U+D83AU+DD21"
    >>

\* toLowerCase of a character outside the Basic Multilingual Plane, likewise

LowerCasePairs ==
    <<
      "U+D801U+DC00U+D801U+DC28U+D801U+DC01U+D801U+DC29U+D801U+DC02U+D801U+DC2AU+D801U+DC03U+D801U+DC2BU+D801U+DC04U+D801U+DC2CU+D801U+DC05U+D801U+DC2DU+D801U+DC06U+D801U+DC2EU+D801U+DC07U+D801U+DC2FU+D801U+DC08U+D801U+DC30U+D801U+DC09U+D801U+DC31U+D801U+DC0AU+D801U+DC32U+D801U+DC0BU+D801U+DC33U+D801U+DC0CU+D801U+DC34U+D801U+DC0DU+D801U+DC35U+D801U+DC0EU+D801U+DC36U+D801U+DC0FU+D801U+DC37U+D801U+DC10U+D801U+DC38U+D801U+DC11U+D801U+DC39U+D801U+DC12U+D801U+DC3AU+D801U+DC13U+D801U+DC3B",
      "U+D801U+DC14U+D801U+DC3CU+D801U+DC15U+D801U+DC3DU+D801U+DC16U+D801U+DC3EU+D801U+DC17U+D801U+DC3FU+D801U+DC18U+D801U+DC40U+D801U+DC19U+D801U+DC41U+D801U+DC1AU+D801U+DC42U+D801U+DC1BU+D801U+DC43U+D801U+DC1CU+D801U+DC44U+D801U+DC1DU+D801U+DC45U+D801U+DC1EU+D801U+DC46U+D801U+DC1FU+D801U+DC47U+D801U+DC20U+D801U+DC48U+D801U+DC21U+D801U+DC49U+D801U+DC22U+D801U+DC4AU+D801U+DC23U+D801U+DC4BU+D801U+DC24U+D801U+DC4CU+D801U+DC25U+D801U+DC4DU+D801U+DC26U+D801U+DC4EU+D801U+DC27U+D801U+DC4F",
      "U+D801U+DCB0U+D801U+DCD8U+D801U+DCB1U+D801U+DCD9U+D801U+DCB2U+D801U+DCDAU+D801U+DCB3U+D801U+DCDBU+D801U+DCB4U+D801U+DCDCU+D801U+DCB5U+D801U+DCDDU+D801U+DCB6U+D801U+DCDEU+D801U+DCB7U+D801U+DCDFU+D801U+DCB8U+D801U+DCE0U+D801U+DCB9U+D801U+DCE1U+D801U+DCBAU+D801U+DCE2U+D801U+DCBBU+D801U+DCE3U+D801U+DCBCU+D801U+DCE4U+D801U+DCBDU+D801U+DCE5U+D801U+DCBEU+D801U+DCE6U+D801U+DCBFU+D801U+DCE7U+D801U+DCC0U+D801U+DCE8U+D801U+DCC1U+D801U+DCE9U+D801U+DCC2U+D801U+DCEAU+D801U+DCC3U+D801U+DCEB",
      "U+D801U+DCC4U+D801U+DCECU+D801U+DCC5U+D801U+DCEDU+D801U+DCC6U+D801U+DCEEU+D801U+DCC7U+D801U+DCEFU+D801U+DCC8U+D801U+DCF0U+D801U+DCC9U+D801U+DCF1U+D801U+DCCAU+D801U+DCF2U+D801U+DCCBU+D801U+DCF3U+D801U+DCCCU+D801U+DCF4U+D801U+DCCDU+D801U+DCF5U+D801U+DCCEU+D801U+DCF6U+D801U+DCCFU+D801U+DCF7U+D801U+DCD0U+D801U+DCF8U+D801U+DCD1U+D801U+DCF9U+D801U+DCD2U+D801U+DCFAU+D801U+DCD3U+D801U+DCFBU+D801U+DD70U+D801U+DD97U+D801U+DD71U+D801U+DD98U+D801U+DD72U+D801U+DD99U+D801U+DD73U+D801U+DD9A",
      "U+D801U+DD74U+D801U+DD9BU+D801U+DD75U+D801U+DD9CU+D801U+DD76U+D801U+DD9DU+D801U+DD77U+D801U+DD9EU+D801U+DD78U+D801U+DD9FU+D801U+DD79U+D801U+DDA0U+D801U+DD7AU+D801U+DDA1U+D801U+DD7CU+D801U+DDA3U+D801U+DD7DU+D801U+DDA4U+D801U+DD7EU+D801U+DDA5U+D801U+DD7FU+D801U+DDA6U+D801U+DD80U+D801U+DDA7U+D801U+DD81U+D801U+DDA8U+D801U+DD82U+D801U+DDA9U+D801U+DD83U+D801U+DDAAU+D801U+DD84U+D801U+DDABU+D801U+DD85U+D801U+DDACU+D801U+DD86U+D801U+DDADU+D801U+DD87U+D801U+DDAEU+D801U+DD88U+D801U+DDAF",
      "U+D801U+DD89U+D801U+DDB0U+D801U+DD8AU+D801U+DDB1U+D801U+DD8CU+D801U+DDB3U+D801U+DD8DU+D801U+DDB4U+D801U+DD8EU+D801U+DDB5U+D801U+DD8FU+D801U+DDB6U+D801U+DD90U+D801U+DDB7U+D801U+DD91U+D801U+DDB8U+D801U+DD92U+D801U+DDB9U+D801U+DD94U+D801U+DDBBU+D801U+DD95U+D801U+DDBCU+D803U+DC80U+D803U+DCC0U+D803U+DC81U+D803U+DCC1U+D803U+DC82U+D803U+DCC2U+D803U+DC83U+D803U+DCC3U+D803U+DC84U+D803U+DCC4U+D803U+DC85U+D803U+DCC5U+D803U+DC86U+D803U+DCC6U+D803U+DC87U+D803U+DCC7U+D803U+DC88U+D803U+DCC8",
      "U+D803U+DC89U+D803U+DCC9U+D803U+DC8AU+D803U+DCCAU+D803U+DC8BU+D803U+DCCBU+D803U+DC8CU+D803U+DCCCU+D803U+DC8DU+D803U+DCCDU+D803U+DC8EU+D803U+DCCEU+D803U+DC8FU+D803U+DCCFU+D803U+DC90U+D803U+DCD0U+D803U+DC91U+D803U+DCD1U+D803U+DC92U+D803U+DCD2U+D803U+DC93U+D803U+DCD3U+D803U+DC94U+D803U+DCD4U+D803U+DC95U+D803U+DCD5U+D803U+DC96U+D803U+DCD6U+D803U+DC97U+D803U+DCD7U+D803U+DC98U+D803U+DCD8U+D803U+DC99U+D803U+DCD9U+D803U+DC9AU+D803U+DCDAU+D803U+DC9BU+D803U+DCDBU+D803U+DC9CU+D803U+DCDC",
      "U+D803U+DC9DU+D803U+DCDDU+D803U+DC9EU+D803U+DCDEU+D803U+DC9FU+D803U+DCDFU+D803U+DCA0U+D803U+DCE0U+D803U+DCA1U+D803U+DCE1U+D803U+DCA2U+D803U+DCE2U+D803U+DCA3U+D803U+DCE3U+D803U+DCA4U+D803U+DCE4U+D803U+DCA5U+D803U+DCE5U+D803U+DCA6U+D803U+DCE6U+D803U+DCA7U+D803U+DCE7U+D803U+DCA8U+D803U+DCE8U+D803U+DCA9U+D803U+DCE9U+D803U+DCAAU+D803U+DCEAU+D803U+DCABU+D803U+DCEBU+D803U+DCACU+D803U+DCECU+D803U+DCADU+D803U+DCEDU+D803U+DCAEU+D803U+DCEEU+D803U+DCAFU+D803U+DCEFU+D803U+DCB0U+D803U+DCF0",
      "U+D803U+DCB1U+D803U+DCF1U+D803U+DCB2U+D803U+DCF2U+D803U+DD50U+D803U+DD70U+D803U+DD51U+D803U+DD71U+D803U+DD52U+D803U+DD72U+D803U+DD53U+D803U+DD73U+D803U+DD54U+D803U+DD74U+D803U+DD55U+D803U+DD75U+D803U+DD56U+D803U+DD76U+D803U+DD57U+D803U+DD77U+D803U+DD58U+D803U+DD78U+D803U+DD59U+D803U+DD79U+D803U+DD5AU+D803U+DD7AU+D803U+DD5BU+D803U+DD7BU+D803U+DD5CU+D803U+DD7CU+D803U+DD5DU+D803U+DD7DU+D803U+DD5EU+D803U+DD7EU+D803U+DD5FU+D803U+DD7FU+D803U+DD60U+D803U+DD80U+D803U+DD61U+D803U+DD81",
      "U+D803U+DD62U+D803U+DD82U+D803U+DD63U+D803U+DD83U+D803U+DD64U+D803U+DD84U+D803U+DD65U+D803U+DD85U+D806U+DCA0U+D806U+DCC0U+D806U+DCA1U+D806U+DCC1U+D806U+DCA2U+D806U+DCC2U+D806U+DCA3U+D806U+DCC3U+D806U+DCA4U+D806U+DCC4U+D806U+DCA5U+D806U+DCC5U+D806U+DCA6U+D806U+DCC6U+D806U+DCA7U+D806U+DCC7U+D806U+DCA8U+D806U+DCC8U+D806U+DCA9U+D806U+DCC9U+D806U+DCAAU+D806U+DCCAU+D806U+DCABU+D806U+DCCBU+D806U+DCACU+D806U+DCCCU+D806U+DCADU+D806U+DCCDU+D806U+DCAEU+D806U+DCCEU+D806U+DCAFU+D806U+DCCF",
      "U+D806U+DCB0U+D806U+DCD0U+D806U+DCB1U+D806U+DCD1U+D806U+DCB2U+D806U+DCD2U+D806U+DCB3U+D806U+DCD3U+D806U+DCB4U+D806U+DCD4U+D806U+DCB5U+D806U+DCD5U+D806U+DCB6U+D806U+DCD6U+D806U+DCB7U+D806U+DCD7U+D806U+DCB8U+D806U+DCD8U+D806U+DCB9U+D806U+DCD9U+D806U+DCBAU+D806U+DCDAU+D806U+DCBBU+D806U+DCDBU+D806U+DCBCU+D806U+DCDCU+D806U+DCBDU+D806U+DCDDU+D806U+DCBEU+D806U+DCDEU+D806U+DCBFU+D806U+DCDFU+D81BU+DE40U+D81BU+DE60U+D81BU+DE41U+D81BU+DE61U+D81BU+DE42U+D81BU+DE62U+D81BU+DE43U+D81BU+DE63",
      "U+D81BU+DE44U+D81BU+DE64U+D81BU+DE45U+D81BU+DE65U+D81BU+DE46U+D81BU+DE66U+D81BU+DE47U+D81BU+DE67U+D81BU+DE48U+D81BU+DE68U+D81BU+DE49U+D81BU+DE69U+D81BU+DE4AU+D81BU+DE6AU+D81BU+DE4BU+D81BU+DE6BU+D81BU+DE4CU+D81BU+DE6CU+D81BU+DE4DU+D81BU+DE6DU+D81BU+DE4EU+D81BU+DE6EU+D81BU+DE4FU+D81BU+DE6FU+D81BU+DE50U+D81BU+DE70U+D81BU+DE51U+D81BU+DE71U+D81BU+DE52U+D81BU+DE72U+D81BU+DE53U+D81BU+DE73U+D81BU+DE54U+D81BU+DE74U+D81BU+DE55U+D81BU+DE75U+D81BU+DE56U+D81BU+DE76U+D81BU+DE57U+D81BU+DE77",
      "U+D81BU+DE58U+D81BU+DE78U+D81BU+DE59U+D81BU+DE79U+D81BU+DE5AU+D81BU+DE7AU+D81BU+DE5BU+D81BU+DE7BU+D81BU+DE5CU+D81BU+DE7CU+D81BU+DE5DU+D81BU+DE7DU+D81BU+DE5EU+D81BU+DE7EU+D81BU+DE5FU+D81BU+DE7FU+D81BU+DEA0U+D81BU+DEBBU+D81BU+DEA1U+D81BU+DEBCU+D81BU+DEA2U+D81BU+DEBDU+D81BU+DEA3U+D81BU+DEBEU+D81BU+DEA4U+D81BU+DEBFU+D81BU+DEA5U+D81BU+DEC0U+D81BU+DEA6U+D81BU+DEC1U+D81BU+DEA7U+D81BU+DEC2U+D81BU+DEA8U+D81BU+DEC3U+D81BU+DEA9U+D81BU+DEC4U+D81BU+DEAAU+D81BU+DEC5U+D81BU+DEABU+D81BU+DEC6",
      "U+D81BU+DEACU+D81BU+DEC7U+D81BU+DEADU+D81BU+DEC8U+D81BU+DEAEU+D81BU+DEC9U+D81BU+DEAFU+D81BU+DECAU+D81BU+DEB0U+D81BU+DECBU+D81BU+DEB1U+D81BU+DECCU+D81BU+DEB2U+D81BU+DECDU+D81BU+DEB3U+D81BU+DECEU+D81BU+DEB4U+D81BU+DECFU+D81BU+DEB5U+D81BU+DED0U+D81BU+DEB6U+D81BU+DED1U+D81BU+DEB7U+D81BU+DED2U+D81BU+DEB8U+D81BU+DED3U+D83AU+DD00U+D83AU+DD22U+D83AU+DD01U+D83AU+DD23U+D83AU+DD02U+D83AU+DD24U+D83AU+DD03U+D83AU+DD25U+D83AU+DD04U+D83AU+DD26U+D83AU+DD05U+D83AU+DD27U+D83AU+DD06U+D83AU+DD28",
      "U+D83AU+DD07U+D83AU+DD29U+D83AU+DD08U+D83AU+DD2AU+D83AU+DD09U+D83AU+DD2BU+D83AU+DD0AU+D83AU+DD2CU+D83AU+DD0BU+D83AU+DD2DU+D83AU+DD0CU+D83AU+DD2EU+D83AU+DD0DU+D83AU+DD2FU+D83AU+DD0EU+D83AU+DD30U+D83AU+DD0FU+D83AU+DD31U+D83AU+DD10U+D83AU+DD32U+D83AU+DD11U+D83AU+DD33U+D83AU+DD12U+D83AU+DD34U+D83AU+DD13U+D83AU+DD35U+D83AU+DD14U+D83AU+DD36U+D83AU+DD15U+D83AU+DD37U+D83AU+DD16U+D83AU+DD38U+D83AU+DD17U+D83AU+DD39U+D83AU+DD18U+D83AU+DD3AU+D83AU+DD19U+D83AU+DD3BU+D83AU+DD1AU+D83AU+DD3C",
      "U+D83AU+DD1BU+D83AU+DD3DU+D83AU+DD1CU+D83AU+DD3EU+D83AU+DD1DU+D83AU+DD3FU+D83AU+DD1EU+D83AU+DD40U+D83AU+DD1FU+D83AU+DD41U+D83AU+DD20U+D83AU+DD42U+D83AU+DD21U+D83AU+DD43"
    >>

\* the code points with the Unicode property Case_Ignorable: ranges, each the
\* first and the last code point in six hexadecimal digits

CaseIgnorable ==
    <<
      "00002700002700002E00002E00003A00003A00005E00005E0000600000600000A80000A80000AD0000AD0000AF0000AF0000B40000B40000B70000B80002B000036F00037400037500037A00037A00038400038500038700038700048300048900055900055900055F00055F0005910005BD0005BF0005BF0005C10005C20005C40005C50005C70005C70005F40005F400060000060500061000061A00061C00061C00064000064000064B00065F0006700006700006D60006DD0006DF0006E80006EA0006ED00070F00070F00071100071100073000074A0007A60007B00007EB0007F50007FA0007FA0007FD0007FD",
      "00081600082D00085900085B00088800088800089000089100089700089F0008C900090200093A00093A00093C00093C00094100094800094D00094D0009510009570009620009630009710009710009810009810009BC0009BC0009C10009C40009CD0009CD0009E20009E30009FE0009FE000A01000A02000A3C000A3C000A41000A42000A47000A48000A4B000A4D000A51000A51000A70000A71000A75000A75000A81000A82000ABC000ABC000AC1000AC5000AC7000AC8000ACD000ACD000AE2000AE3000AFA000AFF000B01000B01000B3C000B3C000B3F000B3F000B41000B44000B4D000B4D000B55000B56",
      "000B62000B63000B82000B82000BC0000BC0000BCD000BCD000C00000C00000C04000C04000C3C000C3C000C3E000C40000C46000C48000C4A000C4D000C55000C56000C62000C63000C81000C81000CBC000CBC000CBF000CBF000CC6000CC6000CCC000CCD000CE2000CE3000D00000D01000D3B000D3C000D41000D44000D4D000D4D000D62000D63000D81000D81000DCA000DCA000DD2000DD4000DD6000DD6000E31000E31000E34000E3A000E46000E4E000EB1000EB1000EB4000EBC000EC6000EC6000EC8000ECE000F18000F19000F35000F35000F37000F37000F39000F39000F71000F7E000F80000F84",
      "000F86000F87000F8D000F97000F99000FBC000FC6000FC600102D00103000103200103700103900103A00103D00103E00105800105900105E00106000107100107400108200108200108500108600108D00108D00109D00109D0010FC0010FC00135D00135F0017120017140017320017330017520017530017720017730017B40017B50017B70017BD0017C60017C60017C90017D30017D70017D70017DD0017DD00180B00180F0018430018430018850018860018A90018A900192000192200192700192800193200193200193900193B001A17001A18001A1B001A1B001A56001A56001A58001A5E001A60001A60",
      "001A62001A62001A65001A6C001A73001A7C001A7F001A7F001AA7001AA7001AB0001ADD001AE0001AEB001B00001B03001B34001B34001B36001B3A001B3C001B3C001B42001B42001B6B001B73001B80001B81001BA2001BA5001BA8001BA9001BAB001BAD001BE6001BE6001BE8001BE9001BED001BED001BEF001BF1001C2C001C33001C36001C37001C78001C7D001CD0001CD2001CD4001CE0001CE2001CE8001CED001CED001CF4001CF4001CF8001CF9001D2C001D6A001D78001D78001D9B001DFF001FBD001FBD001FBF001FC1001FCD001FCF001FDD001FDF001FED001FEF001FFD001FFE00200B00200F",
      "00201800201900202400202400202700202700202A00202E00206000206400206600206F00207100207100207F00207F00209000209C0020D00020F0002C7C002C7D002CEF002CF1002D6F002D6F002D7F002D7F002DE0002DFF002E2F002E2F00300500300500302A00302D00303100303500303B00303B00309900309E0030FC0030FE00A01500A01500A4F800A4FD00A60C00A60C00A66F00A67200A67400A67D00A67F00A67F00A69C00A69F00A6F000A6F100A70000A72100A77000A77000A78800A78A00A7F100A7F400A7F800A7F900A80200A80200A80600A80600A80B00A80B00A82500A82600A82C00A82C",
      "00A8C400A8C500A8E000A8F100A8FF00A8FF00A92600A92D00A94700A95100A98000A98200A9B300A9B300A9B600A9B900A9BC00A9BD00A9CF00A9CF00A9E500A9E600AA2900AA2E00AA3100AA3200AA3500AA3600AA4300AA4300AA4C00AA4C00AA7000AA7000AA7C00AA7C00AAB000AAB000AAB200AAB400AAB700AAB800AABE00AABF00AAC100AAC100AADD00AADD00AAEC00AAED00AAF300AAF400AAF600AAF600AB5B00AB5F00AB6900AB6B00ABE500ABE500ABE800ABE800ABED00ABED00FB1E00FB1E00FBB200FBC200FE0000FE0F00FE1300FE1300FE2000FE2F00FE5200FE5200FE5500FE5500FEFF00FEFF",
      "00FF0700FF0700FF0E00FF0E00FF1A00FF1A00FF3E00FF3E00FF4000FF4000FF7000FF7000FF9E00FF9F00FFE300FFE300FFF900FFFB0101FD0101FD0102E00102E001037601037A0107800107850107870107B00107B20107BA010A01010A03010A05010A06010A0C010A0F010A38010A3A010A3F010A3F010AE5010AE6010D24010D27010D4E010D4E010D69010D6D010D6F010D6F010EAB010EAC010EC5010EC5010EFA010EFF010F46010F50010F82010F8501100101100101103801104601107001107001107301107401107F0110810110B30110B60110B90110BA0110BD0110BD0110C20110C20110CD0110CD",
      "01110001110201112701112B01112D0111340111730111730111800111810111B60111BE0111C90111CC0111CF0111CF01122F01123101123401123401123601123701123E01123E0112410112410112DF0112DF0112E30112EA01130001130101133B01133C01134001134001136601136C0113700113740113BB0113C00113CE0113CE0113D00113D00113D20113D20113E10113E201143801143F01144201144401144601144601145E01145E0114B30114B80114BA0114BA0114BF0114C00114C20114C30115B20115B50115BC0115BD0115BF0115C00115DC0115DD01163301163A01163D01163D01163F011640",
      "0116AB0116AB0116AD0116AD0116B00116B50116B70116B701171D01171D01171F01171F01172201172501172701172B01182F01183701183901183A01193B01193C01193E01193E0119430119430119D40119D70119DA0119DB0119E00119E0011A01011A0A011A33011A38011A3B011A3E011A47011A47011A51011A56011A59011A5B011A8A011A96011A98011A99011B60011B60011B62011B64011B66011B66011C30011C36011C38011C3D011C3F011C3F011C92011CA7011CAA011CB0011CB2011CB3011CB5011CB6011D31011D36011D3A011D3A011D3C011D3D011D3F011D45011D47011D47011D90011D91",
      "011D95011D95011D97011D97011DD9011DD9011EF3011EF4011F00011F01011F36011F3A011F40011F40011F42011F42011F5A011F5A01343001344001344701345501611E01612901612D01612F016AF0016AF4016B30016B36016B40016B43016D40016D42016D6B016D6C016F4F016F4F016F8F016F9F016FE0016FE1016FE3016FE4016FF2016FF301AFF001AFF301AFF501AFFB01AFFD01AFFE01BC9D01BC9E01BCA001BCA301CF0001CF2D01CF3001CF4601D16701D16901D17301D18201D18501D18B01D1AA01D1AD01D24201D24401DA0001DA3601DA3B01DA6C01DA7501DA7501DA8401DA8401DA9B01DA9F",
      "01DAA101DAAF01E00001E00601E00801E01801E01B01E02101E02301E02401E02601E02A01E03001E06D01E08F01E08F01E13001E13D01E2AE01E2AE01E2EC01E2EF01E4EB01E4EF01E5EE01E5EF01E6E301E6E301E6E601E6E601E6EE01E6EF01E6F501E6F501E6FF01E6FF01E8D001E8D601E94401E94B01F3FB01F3FF0E00010E00010E00200E007F0E01000E01EF"
    >>

\* the code points with the Unicode property Cased, likewise

Cased ==
    <<
      "00004100005A00006100007A0000AA0000AA0000B50000B50000BA0000BA0000C00000D60000D80000F60000F80001BA0001BC0001BF0001C40002930002960002B80002C00002C10002E00002E400034500034500037000037300037600037700037A00037D00037F00037F00038600038600038800038A00038C00038C00038E0003A10003A30003F50003F700048100048A00052F0005310005560005600005880010A00010C50010C70010C70010CD0010CD0010D00010FA0010FC0010FF0013A00013F50013F80013FD001C80001C8A001C90001CBA001CBD001CBF001D00001DBF001E00001F15001F18001F1D",
      "001F20001F45001F48001F4D001F50001F57001F59001F59001F5B001F5B001F5D001F5D001F5F001F7D001F80001FB4001FB6001FBC001FBE001FBE001FC2001FC4001FC6001FCC001FD0001FD3001FD6001FDB001FE0001FEC001FF2001FF4001FF6001FFC00207100207100207F00207F00209000209C00210200210200210700210700210A00211300211500211500211900211D00212400212400212600212600212800212800212A00212D00212F00213400213900213900213C00213F00214500214900214E00214E00216000217F0021830021840024B60024E9002C00002CE4002CEB002CEE002CF2002CF3",
      "002D00002D25002D27002D27002D2D002D2D00A64000A66D00A68000A69D00A72200A78700A78B00A78E00A79000A7DC00A7F100A7F600A7F800A7FA00AB3000AB5A00AB5C00AB6900AB7000ABBF00FB0000FB0600FB1300FB1700FF2100FF3A00FF4100FF5A01040001044F0104B00104D30104D80104FB01057001057A01057C01058A01058C0105920105940105950105970105A10105A30105B10105B30105B90105BB0105BC0107800107800107830107850107870107B00107B20107BA010C80010CB2010CC0010CF2010D50010D65010D70010D850118A00118DF016E40016E7F016EA0016EB8016EBB016ED3",
      "01D40001D45401D45601D49C01D49E01D49F01D4A201D4A201D4A501D4A601D4A901D4AC01D4AE01D4B901D4BB01D4BB01D4BD01D4C301D4C501D50501D50701D50A01D50D01D51401D51601D51C01D51E01D53901D53B01D53E01D54001D54401D54601D54601D54A01D55001D55201D6A501D6A801D6C001D6C201D6DA01D6DC01D6FA01D6FC01D71401D71601D73401D73601D74E01D75001D76E01D77001D78801D78A01D7A801D7AA01D7C201D7C401D7CB01DF0001DF0901DF0B01DF1E01DF2501DF2A01E03001E06D01E90001E94301F13001F14901F15001F16901F17001F189"
    >>

\* the i-th field of a line of a table
Field(s, i) ==
    LET f == SubSeq(s, 6 * i - 5, 6 * i)
    IN  IF SubSeq(f, 2, 6) = "     " THEN SubSeq(f, 1, 1) ELSE f

\* the table T of rows of w fields, as a function from the character to the
\* string it becomes
caseMap(T, w) ==
    LET rows == UNION {{<<k, r>> : r \in 1..(Len(T[k]) \div (6 * w))} : k \in 1..Len(T)}
        at(p, i) == Field(T[p[1]], w * (p[2] - 1) + i)
    IN  [c \in {at(p, 1) : p \in rows} |->
            LET p == CHOOSE p \in rows : at(p, 1) = c
            IN  SelectSeq([i \in 1..(w - 1) |-> at(p, i + 1)], LAMBDA x : x # " ")]

\* the table T of rows of two surrogate pairs, as a function from the first pair
\* to the second
pairMap(T) ==
    LET rows == UNION {{<<k, r>> : r \in 1..(Len(T[k]) \div 24)} : k \in 1..Len(T)}
        at(p, i) == Field(T[p[1]], 4 * (p[2] - 1) + i)
    IN  [c \in {<<at(p, 1), at(p, 2)>> : p \in rows} |->
            LET p == CHOOSE p \in rows : <<at(p, 1), at(p, 2)>> = c
            IN  <<at(p, 3), at(p, 4)>>]

upperOf == caseMap(UpperCaseMapping, 4)

lowerOf == caseMap(LowerCaseMapping, 3)

upperOfPair == pairMap(UpperCasePairs)

lowerOfPair == pairMap(LowerCasePairs)

\* a code unit from 0xD800 to 0xDBFF, and one from 0xDC00 to 0xDFFF
isHighSurrogate(c) == Len(c) = 6 /\ SubSeq(c, 3, 4) \in {"D8", "D9", "DA", "DB"}
isLowSurrogate(c) == Len(c) = 6 /\ SubSeq(c, 3, 4) \in {"DC", "DD", "DE", "DF"}

\* the code units at i and i + 1 of s are one character, a surrogate pair
pairAt(s, i) ==
    i >= 1 /\ i < Len(s) /\ isHighSurrogate(s[i]) /\ isLowSurrogate(s[i + 1])

\* c.toUpperCase() of a one-character string: a string of one to three characters
\* (a character written as one character is an ASCII character)
toUpperCaseChar(c) ==
    IF Len(c) = 1
    THEN (IF InSeq(c, Lower) THEN <<Upper[CHOOSE i \in 1..26 : Lower[i] = c]>> ELSE <<c>>)
    ELSE IF c \in DOMAIN upperOf THEN upperOf[c]
    ELSE <<c>>

\* c.toLowerCase() of a one-character string
toLowerCaseChar(c) ==
    IF Len(c) = 1
    THEN (IF InSeq(c, Upper) THEN <<Lower[CHOOSE i \in 1..26 : Upper[i] = c]>> ELSE <<c>>)
    ELSE IF c \in DOMAIN lowerOf THEN lowerOf[c]
    ELSE <<c>>

\* toUpperCase and toLowerCase of a character that is a surrogate pair
toUpperCasePair(p) == IF p \in DOMAIN upperOfPair THEN upperOfPair[p] ELSE p
toLowerCasePair(p) == IF p \in DOMAIN lowerOfPair THEN lowerOfPair[p] ELSE p

\* s.toUpperCase() from the code unit i on: a string is mapped code point by code
\* point, a surrogate without its other half being left as it is
RECURSIVE upperFrom(_, _)
upperFrom(s, i) ==
    IF i > Len(s) THEN <<>>
    ELSE IF pairAt(s, i) THEN toUpperCasePair(<<s[i], s[i + 1]>>) \o upperFrom(s, i + 2)
    ELSE toUpperCaseChar(s[i]) \o upperFrom(s, i + 1)

toUpperCase(s) == upperFrom(s, 1)

\* the value of a string of hexadecimal digits
HexDigit == "0123456789ABCDEF"
RECURSIVE hexVal(_)
hexVal(h) ==
    IF Len(h) = 0 THEN 0
    ELSE 16 * hexVal(SubSeq(h, 1, Len(h) - 1))
         + (CHOOSE d \in 1..16 : SubSeq(HexDigit, d, d) = SubSeq(h, Len(h), Len(h))) - 1

\* the characters from U+0020 to U+005F, and from U+0061 to U+007E
AsciiTo5F ==
    " !\"#$%&'()*+,-./0123456789:;<=>?@ABCDEFGHIJKLMNOPQRSTUVWXYZ[\\]^_"
AsciiFrom61 == "abcdefghijklmnopqrstuvwxyz{|}~"

\* the position of the character c in the string s, 0 when it is not there
position(s, c) ==
    IF \E i \in 1..Len(s) : SubSeq(s, i, i) = c
    THEN CHOOSE i \in 1..Len(s) : SubSeq(s, i, i) = c
    ELSE 0

\* the UTF-16 code unit a character of a string is
codeUnit(c) ==
    IF Len(c) = 6 THEN hexVal(SubSeq(c, 3, 6))
    ELSE IF c = "\t" THEN 9
    ELSE IF c = "\n" THEN 10
    ELSE IF c = "\f" THEN 12
    ELSE IF c = "\r" THEN 13
    ELSE IF position(AsciiTo5F, c) > 0 THEN 31 + position(AsciiTo5F, c)
    ELSE 96 + position(AsciiFrom61, c)

\* the code point of the surrogate pair hi, lo
pairCodePoint(hi, lo) == 65536 + 1024 * (codeUnit(hi) - 55296) + (codeUnit(lo) - 56320)

\* the ranges of a table, as a set of pairs of code points
rangesOf(T) ==
    UNION {{<<hexVal(SubSeq(T[k], 12 * r - 11, 12 * r - 6)),
              hexVal(SubSeq(T[k], 12 * r - 5, 12 * r))>> : r \in 1..(Len(T[k]) \div 12)} :
           k \in 1..Len(T)}

caseIgnorableRanges == rangesOf(CaseIgnorable)

casedRanges == rangesOf(Cased)

isCaseIgnorable(cp) == \E r \in caseIgnorableRanges : r[1] <= cp /\ cp <= r[2]

isCased(cp) == \E r \in casedRanges : r[1] <= cp /\ cp <= r[2]

\* a cased letter ends at or before the code unit i of s, case-ignorable
\* characters only between it and i; a character that is both is passed over
RECURSIVE casedBefore(_, _)
casedBeforeAt(s, i, w, cp) ==
    IF isCaseIgnorable(cp) THEN casedBefore(s, i - w) ELSE isCased(cp)

casedBefore(s, i) ==
    /\ i >= 1
    /\ IF pairAt(s, i - 1)
       THEN casedBeforeAt(s, i, 2, pairCodePoint(s[i - 1], s[i]))
       ELSE casedBeforeAt(s, i, 1, codeUnit(s[i]))

\* a cased letter starts at or after the code unit i of s, likewise
RECURSIVE casedAfter(_, _)
casedAfterAt(s, i, w, cp) ==
    IF isCaseIgnorable(cp) THEN casedAfter(s, i + w) ELSE isCased(cp)

casedAfter(s, i) ==
    /\ i <= Len(s)
    /\ IF pairAt(s, i)
       THEN casedAfterAt(s, i, 2, pairCodePoint(s[i], s[i + 1]))
       ELSE casedAfterAt(s, i, 1, codeUnit(s[i]))

\* the capital sigma at position i of s ends a word (Final_Sigma of SpecialCasing)
finalSigma(s, i) ==
    s[i] = "U+03A3" /\ casedBefore(s, i - 1) /\ ~casedAfter(s, i + 1)

\* s.toLowerCase() from the code unit i on
RECURSIVE lowerFrom(_, _)
lowerFrom(s, i) ==
    IF i > Len(s) THEN <<>>
    ELSE IF pairAt(s, i) THEN toLowerCasePair(<<s[i], s[i + 1]>>) \o lowerFrom(s, i + 2)
    ELSE (IF finalSigma(s, i) THEN <<"U+03C2">> ELSE toLowerCaseChar(s[i]))
         \o lowerFrom(s, i + 1)

toLowerCase(s) == lowerFrom(s, 1)

\* s.replace(/\s/g, '')
StripSpaces(s) == SelectSeq(s, LAMBDA c : ~IsSpace(c))

\* s.trim()
RECURSIVE trimStart(_)
trimStart(s) == IF s # <<>> /\ IsSpace(s[1]) THEN trimStart(Tail(s)) ELSE s

RECURSIVE trimEnd(_)
trimEnd(s) ==
    IF s # <<>> /\ IsSpace(s[Len(s)]) THEN trimEnd(SubSeq(s, 1, Len(s) - 1)) ELSE s

trim(s) == trimEnd(trimStart(s))

\* s.includes(sub)
includes(s, sub) ==
    \E i \in 0..(Len(s) - Len(sub)) : SubSeq(s, i + 1, i + Len(sub)) = sub

\* s.indexOf(c), 0-based, -1 when absent
indexOf(s, c) ==
    IF InSeq(c, s) THEN (CHOOSE i \in 1..Len(s) : s[i] = c /\ \A j \in 1..(i-1) : s[j] # c) - 1
    ELSE -1

\* s.split(c) for a one-character separator
RECURSIVE split(_, _)
split(s, c) ==
    LET i == indexOf(s, c)
    IN  IF i < 0 THEN <<s>>
        ELSE <<SubSeq(s, 1, i)>> \o split(SubSeq(s, i + 2, Len(s)), c)

\* a[i] of a JavaScript array, 0-based
At(a, i) == IF i + 1 \in 1..Len(a) THEN a[i + 1] ELSE Undefined

\* s[i] of a string, 0-based: a character, or "undefined"
Index(s, i) == IF i + 1 \in 1..Len(s) THEN s[i + 1] ELSE "undefined"

\* s.charAt(i): a character, or ""
charAt(s, i) == IF i + 1 \in 1..Len(s) THEN s[i + 1] ELSE ""

-----------------------------------------------------------------------------
(* Numbers: the Number type of JavaScript, IEEE 754 binary64 *)

\* A natural number of any size is the sequence of its digits to the base 2^15,
\* the least significant first and the last one not 0; << >> is 0.
Base == 2 ^ 15

Min(a, b) == IF a < b THEN a ELSE b
Max(a, b) == IF a > b THEN a ELSE b

\* the digits of a without the zeros after the last one that is not 0
bnTrim(a) ==
    IF \A i \in 1..Len(a) : a[i] = 0 THEN <<>>
    ELSE SubSeq(a, 1, CHOOSE i \in 1..Len(a) :
                          a[i] # 0 /\ \A j \in (i + 1)..Len(a) : a[j] = 0)

\* the natural number n of the model's integers
RECURSIVE bnOfInt(_)
bnOfInt(n) == IF n = 0 THEN <<>> ELSE <<n % Base>> \o bnOfInt(n \div Base)

limb(a, i) == IF i >= 1 /\ i <= Len(a) THEN a[i] ELSE 0

\* -1, 0, 1 for a < b, a = b, a > b
bnCmp(a, b) ==
    IF Len(a) # Len(b) THEN (IF Len(a) < Len(b) THEN -1 ELSE 1)
    ELSE IF a = b THEN 0
    ELSE IF \E i \in 1..Len(a) : a[i] < b[i] /\ \A j \in (i + 1)..Len(a) : a[j] = b[j]
         THEN -1 ELSE 1

\* the sequence of the n first values of f
seqOf(f, n) == SubSeq(f, 1, n)

\* The number whose i-th digit is s[i], each s[i] up to 2 * Base - 2 and the
\* last one 0: a carry of 1 enters the i-th digit when the nearest digit below it
\* that is not Base - 1 is Base or more.
carryInto(s, i) ==
    \E k \in 1..(i - 1) : (\A l \in 1..(k - 1) : s[i - l] = Base - 1) /\ s[i - k] >= Base
bnCarry(s) ==
    bnTrim(seqOf([i \in 1..Len(s) |-> (s[i] + IF carryInto(s, i) THEN 1 ELSE 0) % Base],
                 Len(s)))

\* a + b
bnAdd(a, b) ==
    bnCarry(seqOf([i \in 1..(Max(Len(a), Len(b)) + 1) |-> limb(a, i) + limb(b, i)],
                  Max(Len(a), Len(b)) + 1))

\* a - b, for a >= b: d[i] is the difference of the i-th digits, and 1 is
\* borrowed from the i-th digit when the nearest difference below it that is not 0
\* is negative
borrowFrom(d, i) ==
    \E k \in 1..(i - 1) : (\A l \in 1..(k - 1) : d[i - l] = 0) /\ d[i - k] < 0
bnBorrow(d) ==
    bnTrim(seqOf([i \in 1..Len(d) |->
                     ((d[i] - (IF borrowFrom(d, i) THEN 1 ELSE 0)) + Base) % Base],
                 Len(d)))
bnSub(a, b) == bnBorrow(seqOf([i \in 1..Len(a) |-> a[i] - limb(b, i)], Len(a)))

\* a * k + c, for k and c below 2^15
bnMulAdd(a, k, c) ==
    bnCarry(seqOf([i \in 1..(Len(a) + 1) |->
                      ((limb(a, i) * k) % Base) + ((limb(a, i - 1) * k) \div Base)
                          + (IF i = 1 THEN c ELSE 0)],
                  Len(a) + 1))

\* a * 2^(15 n)
bnShiftLimbs(a, n) == IF a = <<>> THEN <<>> ELSE [i \in 1..n |-> 0] \o a

\* a times the digits i to j of b
RECURSIVE bnMulFrom(_, _, _, _)
bnMulFrom(a, b, i, j) ==
    IF i = j THEN bnMulAdd(a, b[i], 0)
    ELSE bnAdd(bnMulFrom(a, b, i, (i + j) \div 2),
               bnShiftLimbs(bnMulFrom(a, b, (i + j) \div 2 + 1, j), (i + j) \div 2 + 1 - i))

\* a * b
bnMul(a, b) == IF a = <<>> \/ b = <<>> THEN <<>> ELSE bnMulFrom(a, b, 1, Len(b))

\* a * 2^n
bnShl(a, n) == bnShiftLimbs(bnMulAdd(a, 2 ^ (n % 15), 0), n \div 15)

\* a divided by 2^n: <<quotient, the remainder is not 0>>
bnShrDigits(a, l, r) ==
    bnTrim(seqOf([i \in 1..(Len(a) - l) |->
                     (a[i + l] \div (2 ^ r))
                         + ((limb(a, i + l + 1) % (2 ^ r)) * (2 ^ (15 - r)))],
                 Len(a) - l))
bnShr(a, n) ==
    IF n \div 15 >= Len(a) THEN <<(<<>>), a # <<>>>>
    ELSE <<bnShrDigits(a, n \div 15, n % 15),
           (\E i \in 1..(n \div 15) : a[i] # 0) \/ (a[n \div 15 + 1] % (2 ^ (n % 15))) # 0>>

\* the number of binary digits of a
RECURSIVE bits(_)
bits(n) == IF n = 0 THEN 0 ELSE 1 + bits(n \div 2)

bnBitLen(a) == IF a = <<>> THEN 0 ELSE 15 * (Len(a) - 1) + bits(a[Len(a)])

bnIsOdd(a) == a # <<>> /\ a[1] % 2 = 1

\* The digit t of a quotient, the largest with d * t <= r, for r below Base * d and
\* d's leading digit 2^14 or more: the two leading digits of r divided by the
\* leading digit of d give t, t + 1 or t + 2.
estimate(r, d) ==
    Min(Base - 1, (limb(r, Len(d) + 1) * Base + limb(r, Len(d))) \div d[Len(d)])
fits(r, d, t) == bnCmp(bnMulAdd(d, t, 0), r) <= 0
quotientDigitFrom(r, d, t) ==
    IF fits(r, d, t) THEN t ELSE IF fits(r, d, t - 1) THEN t - 1 ELSE t - 2
quotientDigit(r, d) == quotientDigitFrom(r, d, estimate(r, d))

\* long division, one digit of the quotient at a time: r is what is left of the
\* digits of a above the i-th, q the digits found so far
RECURSIVE bnDivFrom(_, _, _, _, _)
bnDivStep(a, d, i, r, q, t) ==
    bnDivFrom(a, d, i - 1, bnSub(r, bnMulAdd(d, t, 0)), <<t>> \o q)
bnDivNext(a, d, i, r, q) == bnDivStep(a, d, i, r, q, quotientDigit(r, d))
bnDivFrom(a, d, i, r, q) ==
    IF i = 0 THEN <<bnTrim(q), r # <<>>>>
    ELSE bnDivNext(a, d, i, bnTrim(<<a[i]>> \o r), q)

\* a divided by b, the leading digit of b 2^14 or more
bnDivLong(a, b) ==
    IF Len(a) < Len(b) THEN <<(<<>>), a # <<>>>>
    ELSE bnDivFrom(a, b, Len(a) - Len(b) + 1,
                   SubSeq(a, Len(a) - Len(b) + 2, Len(a)), <<>>)

\* a divided by the digit d, the digits of a taken from the i-th down:
\* <<quotient, remainder>>
RECURSIVE bnDivDigitFrom(_, _, _, _)
bnDivDigitRest(a, d, i, r, rest) ==
    <<Append(rest[1], (r * Base + a[i]) \div d), rest[2]>>
bnDivDigitFrom(a, d, i, r) ==
    IF i = 0 THEN <<(<<>>), r>>
    ELSE bnDivDigitRest(a, d, i, r, bnDivDigitFrom(a, d, i - 1, (r * Base + a[i]) % d))
bnDivDigitOf(x) == <<bnTrim(x[1]), x[2] # 0>>
bnDivDigit(a, d) == bnDivDigitOf(bnDivDigitFrom(a, d, Len(a), 0))

\* a divided by b, b not 0: <<quotient, the remainder is not 0>>; for a b of
\* several digits both are doubled until the leading digit of b is 2^14 or more
bnDivBy(a, b, k) == bnDivLong(bnShl(a, k), bnShl(b, k))
bnDiv(a, b) ==
    IF Len(b) = 1 THEN bnDivDigit(a, b[1]) ELSE bnDivBy(a, b, 15 - bits(b[Len(b)]))

\* the value of a sequence of digits that is below 2^31
RECURSIVE DigitsVal(_)
DigitsVal(ds) ==
    IF ds = <<>> THEN 0
    ELSE 10 * DigitsVal(SubSeq(ds, 1, Len(ds) - 1)) + DigitVal(ds[Len(ds)])

\* 10^k
RECURSIVE bnPow10(_)
bnSquare(a) == bnMul(a, a)
bnPow10(k) ==
    IF k = 0 THEN <<1>>
    ELSE IF k % 2 = 0 THEN bnSquare(bnPow10(k \div 2))
    ELSE bnMulAdd(bnSquare(bnPow10(k \div 2)), 10, 0)

\* the value of a sequence of decimal digits
RECURSIVE bnOfDigits(_)
bnOfDigits(ds) ==
    IF Len(ds) <= 4 THEN bnOfInt(DigitsVal(ds))
    ELSE bnAdd(bnMul(bnOfDigits(SubSeq(ds, 1, Len(ds) \div 2)),
                     bnPow10(Len(ds) - Len(ds) \div 2)),
               bnOfDigits(SubSeq(ds, Len(ds) \div 2 + 1, Len(ds))))

\* A number is NaN, Infinity, NegInfinity or <<"number", s, m, e>>: the value
\* s * m * 2^e with s the sign, 1 or -1, m a natural number that is odd, or 0 with
\* e = 0, and e an integer. Every finite double has one such form; 0 and -0 are
\* <<"number", 1, << >>, 0>> and <<"number", -1, << >>, 0>>.
Infinity == <<"Infinity">>
NegInfinity == <<"-Infinity">>

isNaN(v) == v = NaN

Inf(s) == IF s = 1 THEN Infinity ELSE NegInfinity

isFinite(x) == x[1] = "number"
sign(x) == x[2]
mantissa(x) == x[3]
exponent(x) == x[4]
isZero(x) == isFinite(x) /\ mantissa(x) = <<>>

\* the number of 0 digits a natural number that is not 0 ends in, in binary
RECURSIVE trailingZeros(_)
trailingZeros(n) == IF n % 2 = 1 THEN 0 ELSE 1 + trailingZeros(n \div 2)

lowestDigit(a) == CHOOSE i \in 1..Len(a) : a[i] # 0 /\ \A j \in 1..(i - 1) : a[j] = 0
bnTrailingZerosAt(a, i) == 15 * (i - 1) + trailingZeros(a[i])
bnTrailingZeros(a) == bnTrailingZerosAt(a, lowestDigit(a))

\* the number s * m * 2^e, a double as it is, m not 0
oddFormAt(s, m, e, z) == <<"number", s, IF z = 0 THEN m ELSE bnShr(m, z)[1], e + z>>
oddForm(s, m, e) == oddFormAt(s, m, e, bnTrailingZeros(m))

\* s * q * 2^p of at most 53 binary digits: a double, or out of range
inRange(s, q, p) ==
    IF q = <<>> THEN Zero(s)
    ELSE IF bnBitLen(q) + p - 1 > 1023 THEN Inf(s)
    ELSE oddForm(s, q, p)

\* round to nearest, ties to even: q the digits kept, half the first digit
\* dropped, sticky whether a later one is not 0
roundUp(s, q, half, sticky, p) ==
    inRange(s, IF half /\ (sticky \/ bnIsOdd(q)) THEN bnAdd(q, <<1>>) ELSE q, p)

\* x is <<m divided by 2^(p - e - 1), the remainder is not 0>>
roundAt(s, x, p) == roundUp(s, bnShr(x[1], 1)[1], bnIsOdd(x[1]), x[2], p)

\* the double nearest to s * m * 2^e: 53 binary digits are kept, fewer below
\* 2^-1022, the last one of weight 2^p; Infinity from 2^1024 on
roundTo(s, m, e, p) ==
    IF p <= e THEN inRange(s, m, e) ELSE roundAt(s, bnShr(m, p - e - 1), p)

round53(s, m, e) ==
    IF m = <<>> THEN Zero(s)
    ELSE IF bnBitLen(m) + e - 1 > 1023 THEN Inf(s)
    ELSE roundTo(s, m, e, Max(bnBitLen(m) + e - 53, -1074))

\* the integer n of the model as a number: one below 2^15 is its odd part times
\* a power of 2
smallNumber(s, n, z) == <<"number", s, <<n \div (2 ^ z)>>, z>>
Number(n) ==
    IF n = 0 THEN Zero(1)
    ELSE IF n > 0 /\ n < Base THEN smallNumber(1, n, trailingZeros(n))
    ELSE IF n < 0 /\ 0 - n < Base THEN smallNumber(-1, 0 - n, trailingZeros(0 - n))
    ELSE IF n < 0 THEN round53(-1, bnOfInt(0 - n), 0)
    ELSE round53(1, bnOfInt(n), 0)

\* a / b of natural numbers that are not 0, to 57 or 58 binary digits: <<m, e>>
\* with 2 * (a / b) = m * 2^e should a * 2^-e be a multiple of b, and m odd and
\* the integer part of that plus or less one half otherwise
ratioOf(x, e) == <<bnMulAdd(x[1], 2, IF x[2] THEN 1 ELSE 0), e - 1>>
ratioBy(a, b, e) ==
    ratioOf(IF e < 0 THEN bnDiv(bnShl(a, 0 - e), b) ELSE bnDiv(a, bnShl(b, e)), e)
ratio(a, b) == ratioBy(a, b, bnBitLen(a) - bnBitLen(b) - 56)

\* a / b of finite numbers
quotientOf(s, r, e) == round53(s, r[1], r[2] + e)
numDiv(a, b) ==
    IF isNaN(a) \/ isNaN(b) THEN NaN
    ELSE IF isZero(b) THEN (IF isZero(a) THEN NaN ELSE Inf(sign(a) * sign(b)))
    ELSE IF isZero(a) THEN Zero(sign(a) * sign(b))
    ELSE quotientOf(sign(a) * sign(b), ratio(mantissa(a), mantissa(b)),
                    exponent(a) - exponent(b))

\* a * b of finite numbers
numMul(a, b) ==
    IF isNaN(a) \/ isNaN(b) THEN NaN
    ELSE round53(sign(a) * sign(b), bnMul(mantissa(a), mantissa(b)),
                 exponent(a) + exponent(b))

\* s * ma * 2^e + t * mb * 2^e
sumAt(s, ma, t, mb, e) ==
    IF s = t THEN round53(s, bnAdd(ma, mb), e)
    ELSE IF bnCmp(ma, mb) > 0 THEN round53(s, bnSub(ma, mb), e)
    ELSE IF bnCmp(ma, mb) < 0 THEN round53(t, bnSub(mb, ma), e)
    ELSE Zero(1)

\* a - b of finite numbers
numSubAt(a, b, e) ==
    sumAt(sign(a), bnShl(mantissa(a), exponent(a) - e),
          0 - sign(b), bnShl(mantissa(b), exponent(b) - e), e)
numSub(a, b) ==
    IF isNaN(a) \/ isNaN(b) THEN NaN
    ELSE numSubAt(a, b, Min(exponent(a), exponent(b)))

\* -1, 0, 1 for |a| < |b|, |a| = |b|, |a| > |b| of finite numbers
magnitudeCmpAt(a, b, e) ==
    bnCmp(bnShl(mantissa(a), exponent(a) - e), bnShl(mantissa(b), exponent(b) - e))
\* for a and b not 0, la and lb the places of their leading digits
magnitudeCmpBy(a, b, la, lb) ==
    IF la # lb THEN (IF la < lb THEN -1 ELSE 1)
    ELSE magnitudeCmpAt(a, b, Min(exponent(a), exponent(b)))
magnitudeCmp(a, b) ==
    IF isZero(a) \/ isZero(b)
    THEN (IF isZero(a) /\ isZero(b) THEN 0 ELSE IF isZero(a) THEN -1 ELSE 1)
    ELSE magnitudeCmpBy(a, b, bnBitLen(mantissa(a)) + exponent(a),
                        bnBitLen(mantissa(b)) + exponent(b))

\* -1, 0, 1 for a < b, a = b, a > b of numbers that are not NaN
numCmp(a, b) ==
    IF a = b THEN 0
    ELSE IF a = Infinity \/ b = NegInfinity THEN 1
    ELSE IF a = NegInfinity \/ b = Infinity THEN -1
    ELSE IF isZero(a) /\ isZero(b) THEN 0
    ELSE IF sign(a) # sign(b) THEN sign(a)
    ELSE sign(a) * magnitudeCmp(a, b)

\* a > b, a >= b and a === b of JavaScript: false when either is NaN
numGt(a, b) == ~isNaN(a) /\ ~isNaN(b) /\ numCmp(a, b) > 0
numGe(a, b) == ~isNaN(a) /\ ~isNaN(b) /\ numCmp(a, b) >= 0
numEq(a, b) == ~isNaN(a) /\ ~isNaN(b) /\ numCmp(a, b) = 0

\* Math.max(0, x)
mathMax0(x) ==
    IF isNaN(x) THEN NaN
    ELSE IF numGt(x, Zero(1)) THEN x
    ELSE Zero(1)

\* the longest prefix of s made of digits
DigitPrefix(s) ==
    SubSeq(s, 1, Cardinality({i \in 1..Len(s) : \A j \in 1..i : IsDigit(s[j])}))

\* s without its leading zeros
dropZeros(s) ==
    SubSeq(s, 1 + Cardinality({i \in 1..Len(s) : \A j \in 1..i : s[j] = "0"}), Len(s))

\* the double nearest to s * ds * 10^-k, ds a sequence of digits whose first is
\* not 0: a decimal of 10^310 or more is Infinity, one below 10^-330 is 0
decimalQuotient(s, r) == round53(s, r[1], r[2])
decimalValue(s, ds, k) ==
    IF ds = <<>> THEN Zero(s)
    ELSE IF Len(ds) - k > 310 THEN Inf(s)
    ELSE IF Len(ds) - k < -330 THEN Zero(s)
    ELSE IF k <= 0 THEN round53(s, bnMul(bnOfDigits(ds), bnPow10(0 - k)), 0)
    ELSE decimalQuotient(s, ratio(bnOfDigits(ds), bnPow10(k)))

\* the digits of an exponent as an integer: 1000000 for one of seven digits or more
exponentVal(ed) == IF Len(dropZeros(ed)) > 6 THEN 1000000 ELSE DigitsVal(dropZeros(ed))

\* parseInt(s, 10): leading white space is skipped, then a sign and the longest
\* prefix made of digits are read; NaN when there is no digit
parseIntOf(s, ds) == IF ds = <<>> THEN NaN ELSE round53(s, bnOfDigits(dropZeros(ds)), 0)
parseIntFrom(t) ==
    IF t # <<>> /\ t[1] = "-" THEN parseIntOf(-1, DigitPrefix(Tail(t)))
    ELSE IF t # <<>> /\ t[1] = "+" THEN parseIntOf(1, DigitPrefix(Tail(t)))
    ELSE parseIntOf(1, DigitPrefix(t))
parseInt(s) == parseIntFrom(trimStart(s))

\* parseFloat(s): leading white space is skipped, then the longest prefix that is a
\* decimal literal is read: a sign, "Infinity" or digits with a fraction and an
\* exponent; NaN when there is none. The value is the double nearest to the
\* decimal read.
parseFloat(s) ==
    LET t    == trimStart(s)
        neg  == t # <<>> /\ t[1] = "-"
        u    == IF t # <<>> /\ t[1] \in {"-", "+"} THEN Tail(t) ELSE t
        ip   == DigitPrefix(u)
        r    == SubSeq(u, Len(ip) + 1, Len(u))
        dot  == r # <<>> /\ r[1] = "."
        fp   == IF dot THEN DigitPrefix(Tail(r)) ELSE <<>>
        r2   == IF dot THEN SubSeq(r, Len(fp) + 2, Len(r)) ELSE r
        es   == IF r2 # <<>> /\ r2[1] \in {"e", "E"} THEN Tail(r2) ELSE <<>>
        ed   == DigitPrefix(IF es # <<>> /\ es[1] \in {"-", "+"} THEN Tail(es) ELSE es)
        e    == IF ed = <<>> THEN 0
                ELSE IF es[1] = "-" THEN 0 - exponentVal(ed) ELSE exponentVal(ed)
    IN  IF Len(u) >= 8 /\ SubSeq(u, 1, 8) = <<"I","n","f","i","n","i","t","y">>
        THEN (IF neg THEN NegInfinity ELSE Infinity)
        ELSE IF ip = <<>> /\ fp = <<>> THEN NaN
        ELSE decimalValue(IF neg THEN -1 ELSE 1, dropZeros(ip \o fp), Len(fp) - e)

-----------------------------------------------------------------------------
(* Build step: scripts/convert-csv.js *)

\* convert-csv.js declares function normalizeISSN twice in one scope, at line 79
\* and at line 599. Function declarations are instantiated before the first
\* statement runs and the later one replaces the earlier, so every call of the
\* name, those of convert() included, runs the declaration of line 599; the
\* declaration of line 79 (null for a falsy input or 'N/A') is run by no call.

\* normalizeISSN as every call of convert-csv.js runs it: lines 599-608
normalizeISSN(issn) ==
    IF Falsy(issn) THEN <<>>
    ELSE LET t == toUpperCase(StripSpaces(issn))
         IN  IF Len(t) = 8 /\ ~InSeq("-", t)
             THEN SubSeq(t, 1, 4) \o <<"-">> \o SubSeq(t, 5, 8)
             ELSE t

\* text.match(/^(\d+)\s*(\[\d+\/\d+\])/) succeeds
DivisionMatches(text) ==
    LET d1 == DigitPrefix(text)
        r1 == trimStart(SubSeq(text, Len(d1) + 1, Len(text)))
        r2 == IF r1 # <<>> THEN Tail(r1) ELSE <<>>
        d2 == DigitPrefix(r2)
        r3 == SubSeq(r2, Len(d2) + 1, Len(r2))
        r4 == IF r3 # <<>> THEN Tail(r3) ELSE <<>>
        d3 == DigitPrefix(r4)
        r5 == SubSeq(r4, Len(d3) + 1, Len(r4))
    IN  /\ d1 # <<>>
        /\ r1 # <<>> /\ r1[1] = "["
        /\ d2 # <<>>
        /\ r3 # <<>> /\ r3[1] = "/"
        /\ d3 # <<>>
        /\ r5 # <<>> /\ r5[1] = "]"

parseCasDivision(text) ==
    IF Falsy(text) THEN [q |-> Null, rank |-> Null]
    ELSE IF DivisionMatches(text)
         THEN [q |-> parseInt(DigitPrefix(text)), rank |-> trim(text)]
         ELSE [q |-> Null, rank |-> Null]

\* value === '\u662F'
isTop(value) == value = <<"U+662F">>

ChinaSupportMark == <<"U+4E2D","U+56FD","S","C","I","U+671F","U+520A","U+652F","U+6301","U+8BA1","U+5212">>
BilingualMark == <<"U+4E2D","U+82F1","U+6587","U+671F","U+520A">>
WarningMark == <<"U+9884","U+8B66">>

isChinaSupport(value) ==
    IF Falsy(value) THEN FALSE
    ELSE includes(value, ChinaSupportMark) \/ includes(value, BilingualMark)

isWarning(value) ==
    IF Falsy(value) THEN FALSE ELSE includes(value, WarningMark)

isMega(value) ==
    IF Falsy(value) THEN FALSE ELSE includes(toLowerCase(value), <<"m","e","g","a">>)

excludedCategories == <<
    <<"U+6587","U+5B66">>, <<"U+5386","U+53F2","U+5B66">>, <<"U+827A","U+672F","U+5B66">>,
    <<"U+7BA1","U+7406","U+5B66">>, <<"U+793E","U+4F1A","U+5B66">>,
    <<"U+7ECF","U+6D4E","U+5B66">>, <<"U+6CD5","U+5B66">>, <<"U+54F2","U+5B66">>,
    <<"U+6559","U+80B2","U+5B66">>,
    <<"U+5DE5","U+7A0B","U+6280","U+672F">>, <<"U+8BA1","U+7B97","U+673A","U+79D1","U+5B66">>,
    <<"U+5730","U+7403","U+79D1","U+5B66">>, <<"U+6570","U+5B66">>,
    <<"U+7269","U+7406","U+4E0E","U+5929","U+4F53","U+7269","U+7406">> >>

\* journals[k] is set: the object journals has the key k
HasKey(js, k) == \E i \in 1..Len(js) : js[i][1] = k

\* journals[k]
Lookup(js, k) == js[CHOOSE i \in 1..Len(js) : js[i][1] = k][2]

\* digit strings of one length: a is before b
RECURSIVE digitsLess(_, _)
digitsLess(a, b) ==
    /\ a # <<>>
    /\ \/ DigitVal(a[1]) < DigitVal(b[1])
       \/ a[1] = b[1] /\ digitsLess(Tail(a), Tail(b))

\* the numbers a and b written in digits without leading zeros: a < b
indexLess(a, b) == Len(a) < Len(b) \/ (Len(a) = Len(b) /\ digitsLess(a, b))

\* the property key k is an array index: the canonical decimal of an integer
\* from 0 to 2^32 - 2
isArrayIndex(k) ==
    /\ k # <<>> /\ \A i \in 1..Len(k) : IsDigit(k[i])
    /\ (k[1] # "0" \/ Len(k) = 1)
    /\ indexLess(k, <<"4","2","9","4","9","6","7","2","9","5">>)

\* the place of the new key k among the own properties of an object: array
\* indices come first in ascending order, other keys follow in insertion order
insertAt(js, k) ==
    IF isArrayIndex(k)
    THEN Cardinality({i \in 1..Len(js) : isArrayIndex(js[i][1]) /\ indexLess(js[i][1], k)})
    ELSE Len(js)

\* journals[k] = v on an object: a key that is present keeps its place
Assign(js, k, v) ==
    IF HasKey(js, k)
    THEN [i \in 1..Len(js) |-> IF js[i][1] = k THEN <<k, v>> ELSE js[i]]
    ELSE LET n == insertAt(js, k)
         IN  SubSeq(js, 1, n) \o <<(<<k, v>>)>> \o SubSeq(js, n + 1, Len(js))

\* map.set(k, v) on a Map: a key that is present keeps its place, a new key goes last
MapSet(m, k, v) ==
    IF HasKey(m, k)
    THEN [i \in 1..Len(m) |-> IF m[i][1] = k THEN <<k, v>> ELSE m[i]]
    ELSE Append(m, <<k, v>>)

Keys(js) == {js[i][1] : i \in 1..Len(js)}

\* lines 200-207 and 266-272: index the object under both identifiers
indexBoth(js, issn, eissn, ref) ==
    LET j1 == IF ~Falsy(issn) THEN Assign(js, issn, ref) ELSE js
    IN  IF ~Falsy(eissn) /\ eissn # issn THEN Assign(j1, eissn, ref) ELSE j1

\* lines 176-178: the identifiers of an excluded row join the blacklist
blacklist(excl, issn, eissn) ==
    excl \cup (IF ~Falsy(issn) THEN {issn} ELSE {})
         \cup (IF ~Falsy(eissn) THEN {eissn} ELSE {})

\* lines 185-198: the object a primary row becomes
casJournal(row, issn, eissn) ==
    [ name           |-> row.Journal,
      issn           |-> issn,
      eissn          |-> eissn,
      casCategory    |-> IF Falsy(row.Category) THEN Null ELSE row.Category,
      casQ           |-> parseCasDivision(row.Division).q,
      casRank        |-> parseCasDivision(row.Division).rank,
      isTop          |-> isTop(row.Top),
      isChinaSupport |-> isChinaSupport(row.Mark),
      isWarning      |-> isWarning(row.Mark),
      isMega         |-> isMega(row.Mark),
      if             |-> Null,
      jcrQ           |-> Null ]

\* line 224: the secondary row carries a blacklisted identifier
isBlacklisted(excl, issn, eissn) ==
    (~Falsy(issn) /\ issn \in excl) \/ (~Falsy(eissn) /\ eissn \in excl)

\* findExisting without the fallback to the eissn
findExisting_IssnOnly(js, issn, eissn) ==
    IF ~Falsy(issn) /\ HasKey(js, issn) THEN Lookup(js, issn) ELSE 0

\* lines 232-239: the existing entry, by issn and then by eissn; 0 when there is none
findExisting(js, issn, eissn) ==
    IF ~Falsy(issn) /\ HasKey(js, issn) THEN Lookup(js, issn)
    ELSE IF ~Falsy(eissn) /\ HasKey(js, eissn) THEN Lookup(js, eissn)
    ELSE 0

\* mergeJcr assigning both metrics whatever the row holds, as the new entry's are
mergeJcr_Assign(journal, ifValue, jcrQ) ==
    [journal EXCEPT !.if = IF isNaN(ifValue) THEN Null ELSE ifValue,
                    !.jcrQ = IF Falsy(jcrQ) THEN Null ELSE jcrQ]

\* lines 241-248: merge the secondary row's metrics into the existing object
mergeJcr(journal, ifValue, jcrQ) ==
    LET j1 == IF ~isNaN(ifValue) THEN [journal EXCEPT !.if = ifValue] ELSE journal
    IN  IF ~Falsy(jcrQ) THEN [j1 EXCEPT !.jcrQ = jcrQ] ELSE j1

\* lines 251-264: the object a secondary row with no existing entry becomes
newJournal(row, issn, eissn, ifValue, jcrQ) ==
    [ name           |-> row.Journal,
      issn           |-> issn,
      eissn          |-> eissn,
      casCategory    |-> Null,
      casQ           |-> Null,
      casRank        |-> Null,
      isTop          |-> FALSE,
      isChinaSupport |-> FALSE,
      isWarning      |-> FALSE,
      isMega         |-> FALSE,
      if             |-> IF isNaN(ifValue) THEN Null ELSE ifValue,
      jcrQ           |-> IF Falsy(jcrQ) THEN Null ELSE jcrQ ]

\* the identifiers of a primary row, lines 169-172
casIssn(row) == normalizeISSN(At(split(row.IssnEissn, "/"), 0))
casEissn(row) == normalizeISSN(At(split(row.IssnEissn, "/"), 1))

\* line 174-176
casExcluded(row) ==
    InSeq(IF Falsy(row.Category) THEN Null ELSE row.Category, excludedCategories)

\* readFileSync proceeds on the CAS file alone
readFails_CasOnly(f) == ~f.cas

\* lines 142 and 147: one of the two readFileSync calls throws
readFails(f) == ~f.cas \/ ~f.jcr

\* the promise p.catch(console.error) gives, line 344: console.error is the
\* handler of a rejected p and returns, so the promise it gives is fulfilled; a
\* fulfilled p passes through
catchConsoleError(p) == IF p = "rejected" THEN "fulfilled" ELSE p

\* line 406 under a host that defines the global browser whatever it is
addListener_Defined(host) == "listening"

\* line 406, browser.runtime.onMessage.addListener(...), a statement of the top
\* level of the file that follows line 344: the browser, which defines the global
\* browser, registers the listener; node, the host of the build command, defines
\* no such global, and the statement throws a ReferenceError that nothing catches.
\* (The call of loadJournalData of line 403 catches its own, line 396.)
addListener(host) == IF host = "browser" THEN "listening" ELSE "ReferenceError"

\* the exit status of the node process that ran the file: 1 when the promise p of
\* line 344 is rejected and nothing handles it or when a statement of the top
\* level threw, 0 otherwise
exitStatusOf(p, top) == IF p = "rejected" \/ top = "ReferenceError" THEN 1 ELSE 0

\* lines 138-149, 344 and 406: the two files are read and parsed; when a read
\* throws, the promise of convert() is rejected, line 344 attaches console.error
\* to it, and the file runs on to line 406
ReadInputs ==
    /\ pc = "start"
    /\ IF readFails(files)
       THEN /\ pc' = "failed"
            /\ exitStatus' = exitStatusOf(catchConsoleError("rejected"), addListener("node"))
       ELSE /\ pc' = "cas"
            /\ UNCHANGED exitStatus
    /\ UNCHANGED <<casData, jcrData, ci, ji, journals, heap, excludedIssns, origin, output,
                   files, written>>
    /\ UNCHANGED <<rvars, nvars>>
    /\ UNCHANGED pvars

\* one iteration of the loop over casData, lines 164-207
CasRow ==
    /\ pc = "cas"
    /\ ci <= Len(casData)
    /\ LET row   == casData[ci]
           issn  == casIssn(row)
           eissn == casEissn(row)
       IN  IF Falsy(row.Journal)
           THEN UNCHANGED <<journals, heap, excludedIssns, origin>>
           ELSE IF casExcluded(row)
                THEN /\ excludedIssns' = blacklist(excludedIssns, issn, eissn)
                     /\ UNCHANGED <<journals, heap, origin>>
                ELSE /\ heap' = Append(heap, casJournal(row, issn, eissn))
                     /\ origin' = Append(origin, <<"cas", ci>>)
                     /\ journals' = indexBoth(journals, issn, eissn, Len(heap) + 1)
                     /\ UNCHANGED excludedIssns
    /\ ci' = ci + 1
    /\ UNCHANGED <<casData, jcrData, pc, ji, output, files, written, exitStatus>>
    /\ UNCHANGED <<rvars, nvars>>
    /\ UNCHANGED pvars

\* the loop over casData is over, lines 209-214
CasEnd ==
    /\ pc = "cas"
    /\ ci > Len(casData)
    /\ pc' = "jcr"
    /\ UNCHANGED cdata
    /\ UNCHANGED <<rvars, nvars>>
    /\ UNCHANGED pvars

\* one iteration of the loop over jcrData, lines 216-274
JcrRow ==
    /\ pc = "jcr"
    /\ ji <= Len(jcrData)
    /\ LET row     == jcrData[ji]
           issn    == normalizeISSN(row.ISSN)
           eissn   == normalizeISSN(row.eISSN)
           ifValue == parseFloat(row.IF2024)
           jcrQ    == row.IFQuartile2024
           ref     == findExisting(journals, issn, eissn)
       IN  IF Falsy(row.Journal) \/ isBlacklisted(excludedIssns, issn, eissn)
           THEN UNCHANGED <<journals, heap, origin>>
           ELSE IF ref # 0
                THEN /\ heap' = [heap EXCEPT ![ref] = mergeJcr(heap[ref], ifValue, jcrQ)]
                     /\ UNCHANGED <<journals, origin>>
                ELSE /\ heap' = Append(heap, newJournal(row, issn, eissn, ifValue, jcrQ))
                     /\ origin' = Append(origin, <<"jcr", ji>>)
                     /\ journals' = indexBoth(journals, issn, eissn, Len(heap) + 1)
    /\ ji' = ji + 1
    /\ UNCHANGED <<casData, jcrData, pc, ci, excludedIssns, output, files, written, exitStatus>>
    /\ UNCHANGED <<rvars, nvars>>
    /\ UNCHANGED pvars

\* line 302: journal.issn || journal.eissn || journal.name
journalKey(journal) ==
    IF ~Falsy(journal.issn) THEN journal.issn
    ELSE IF ~Falsy(journal.eissn) THEN journal.eissn
    ELSE journal.name

\* line 305: journals[journal.issn || journal.eissn], 0 for undefined
firstKeyRef(js, journal) ==
    LET k == IF ~Falsy(journal.issn) THEN journal.issn ELSE journal.eissn
    IN  IF HasKey(js, k) THEN Lookup(js, k) ELSE 0

\* the loop over the keys of journals that fills output, lines 299-310
RECURSIVE fillOutput(_, _, _, _, _)
fillOutput(js, hp, i, seen, out) ==
    IF i > Len(js) THEN out
    ELSE LET key     == js[i][1]
             journal == hp[js[i][2]]
         IN  IF journalKey(journal) \in seen
             THEN fillOutput(js, hp, i + 1, seen,
                             Assign(out, key, firstKeyRef(js, journal)))
             ELSE fillOutput(js, hp, i + 1, seen \cup {journalKey(journal)},
                             Assign(out, key, js[i][2]))

\* the loop over jcrData is over, the output is filled and written, lines 276-341;
\* convert() returns, its promise is fulfilled, line 344, and the file runs on to
\* line 406
JcrEnd ==
    /\ pc = "jcr"
    /\ ji > Len(jcrData)
    /\ pc' = "done"
    /\ output' = fillOutput(journals, heap, 1, {}, <<>>)
    /\ written' = TRUE
    /\ exitStatus' = exitStatusOf(catchConsoleError("fulfilled"), addListener("node"))
    /\ UNCHANGED <<casData, jcrData, ci, ji, journals, heap, excludedIssns, origin, files>>
    /\ UNCHANGED <<rvars, nvars>>
    /\ UNCHANGED pvars

-----------------------------------------------------------------------------
(* Inputs of the build step *)

MaxCas == 2
MaxJcr == 2

SeqsUpTo(S, n) == UNION {[1..k -> S] : k \in 0..n}

IdA == <<"1","1","1","1","-","1","1","1","1">>
IdB == <<"2","2","2","2","-","2","2","2","2">>
IdC == <<"3","3","3","3","-","3","3","3","X">>
RawA == <<"1","1","1","1","1","1","1","1">>
RawC == <<"3","3","3","3","-","3","3","3","x">>

\* the ISSN/EISSN field of a primary row
CasIdFields ==
    { RawA \o <<"/">> \o IdB, IdA \o <<" ", "/", " ">> \o RawC, RawC, <<>> }

Mathematics == <<"U+6570","U+5B66">>
Medicine == <<"U+533B","U+5B66">>

CasDetails ==
    { [Division |-> <<"1"," ","[","5","/","3","0","0","]">>, Top |-> <<"U+662F">>,
       Mark |-> <<>>],
      [Division |-> <<>>, Top |-> <<>>,
       Mark |-> WarningMark \o <<";","M","e","g","a","-","J","o","u","r","n","a","l">>] }

CasRows ==
    { [Journal |-> <<"C","e","l","l">>, IssnEissn |-> f, Category |-> c,
       Division |-> d.Division, Top |-> d.Top, Mark |-> d.Mark] :
         f \in CasIdFields, c \in {Mathematics, Medicine}, d \in CasDetails }
    \cup
    { [Journal |-> <<>>, IssnEissn |-> IdA \o <<"/">> \o IdB, Category |-> Medicine,
       Division |-> <<>>, Top |-> <<>>, Mark |-> <<>>] }

\* an identifier that is an array index as a property key
Id7 == <<"7">>

JcrIds ==
    { [ISSN |-> RawA, eISSN |-> <<>>], [ISSN |-> <<"N","/","A">>, eISSN |-> IdB],
      [ISSN |-> IdA, eISSN |-> RawC], [ISSN |-> IdC, eISSN |-> IdB],
      [ISSN |-> Id7, eISSN |-> IdA] }

JcrMetrics ==
    { [IF2024 |-> <<"4","5",".","5">>, IFQuartile2024 |-> <<"Q","1">>],
      [IF2024 |-> <<"N","/","A">>, IFQuartile2024 |-> <<>>],
      [IF2024 |-> <<"3",".","1","0">>, IFQuartile2024 |-> <<"Q","2">>] }

JcrRows ==
    { [Journal |-> <<"C","E","L","L">>, ISSN |-> k.ISSN, eISSN |-> k.eISSN,
       IF2024 |-> m.IF2024, IFQuartile2024 |-> m.IFQuartile2024] :
         k \in JcrIds, m \in JcrMetrics }
    \cup
    { [Journal |-> <<>>, ISSN |-> IdA, eISSN |-> <<>>,
       IF2024 |-> <<"4","5",".","5">>, IFQuartile2024 |-> <<"Q","1">>] }

NoQuery == [issn |-> Undefined, eissn |-> Undefined, name |-> Undefined]

\* Object.prototype, where the prototype of an object is told: a record of the
\* registry is its index there and null is 0
ObjectPrototype == -1

\* no queryBatch response and no getStatus response
NoResults == [kind |-> "none", entries |-> <<>>, proto |-> ObjectPrototype]
NoStatus == [dataLoaded |-> FALSE, entryCount |-> -1]

\* no message was handled
NoMessage ==
    /\ msg = "none"
    /\ query = NoQuery
    /\ result = -1
    /\ queries = <<>>
    /\ results = NoResults
    /\ status = NoStatus

RuntimeIdle ==
    /\ artifact = <<>>
    /\ journalData = <<>>
    /\ nameIndex = <<>>
    /\ dataLoaded = FALSE
    /\ NoMessage
    /\ script = "none"

PureIdle ==
    /\ arg = Null
    /\ ret = Null

\* no page: a page is of PubMed or of Google Scholar (kind); article tells an
\* article page, which has a journal trigger and an article title, query is what
\* the trigger and the meta elements give, journalAttr and titleAttr the processed
\* attributes of the two, containers the badge containers inserted before the
\* title, entries the entries of its lists and inits the runs so far
NoDom ==
    [kind |-> "none", article |-> FALSE, journalAttr |-> "none", titleAttr |-> "none",
     containers |-> 0, inits |-> 0, query |-> NoQuery, entries |-> <<>>]

PageIdle ==
    /\ cache = <<>>
    /\ calls = <<>>
    /\ dom = NoDom

ConvertInit ==
    /\ files \in [cas : BOOLEAN, jcr : BOOLEAN]
    /\ casData \in IF files.cas THEN SeqsUpTo(CasRows, MaxCas) ELSE {<<>>}
    /\ jcrData \in IF files.jcr THEN SeqsUpTo(JcrRows, MaxJcr) ELSE {<<>>}
    /\ written = FALSE
    /\ exitStatus = -1
    /\ pc = "start"
    /\ ci = 1
    /\ ji = 1
    /\ journals = <<>>
    /\ heap = <<>>
    /\ excludedIssns = {}
    /\ origin = <<>>
    /\ output = <<>>
    /\ RuntimeIdle
    /\ PureIdle
    /\ PageIdle

ConvertNext == ReadInputs \/ CasRow \/ CasEnd \/ JcrRow \/ JcrEnd

SpecConvert == ConvertInit /\ [][ConvertNext]_vars

-----------------------------------------------------------------------------
(* Properties of the build step *)

CasNamed(p) == ~Falsy(casData[p].Journal)
JcrNamed(s) == ~Falsy(jcrData[s].Journal)
JcrIssn(s) == normalizeISSN(jcrData[s].ISSN)
JcrEissn(s) == normalizeISSN(jcrData[s].eISSN)

\* row p of casData / row s of jcrData carries the identifier k
CasCarries(p, k) ==
    ~Falsy(k) /\ (casIssn(casData[p]) = k \/ casEissn(casData[p]) = k)
JcrCarries(s, k) ==
    ~Falsy(k) /\ (JcrIssn(s) = k \/ JcrEissn(s) = k)

\* C1: after both passes no key of the registry is a member of the suppression set,
\* whichever other row, primary or secondary, carries the identifier.
C1_NoSuppressedKey ==
    pc = "done" => Keys(journals) \cap excludedIssns = {}

\* C2: after every row of either pass every record stored under any key is the
\* record stored under its own issn and under its own eissn.
C2_SameInstance ==
    \A i \in 1..Len(journals) :
        LET ref == journals[i][2]
            r   == heap[ref]
        IN  /\ ~Falsy(r.issn) => HasKey(journals, r.issn) /\ Lookup(journals, r.issn) = ref
            /\ ~Falsy(r.eissn) => HasKey(journals, r.eissn) /\ Lookup(journals, r.eissn) = ref

\* the case of C3: a named, non-excluded primary row p with distinct identifiers I and
\* E, a named secondary row s carrying ISSN I or eISSN E with a parseable impact
\* factor and a non-empty quartile, and no other row carrying I or E
C3_Case(p, s) ==
    LET I == casIssn(casData[p])
        E == casEissn(casData[p])
    IN  /\ CasNamed(p) /\ ~casExcluded(casData[p])
        /\ ~Falsy(I) /\ ~Falsy(E) /\ I # E
        /\ JcrNamed(s)
        /\ JcrIssn(s) = I \/ JcrEissn(s) = E
        /\ ~isNaN(parseFloat(jcrData[s].IF2024))
        /\ ~Falsy(jcrData[s].IFQuartile2024)
        /\ \A p2 \in (1..Len(casData)) \ {p} : ~CasCarries(p2, I) /\ ~CasCarries(p2, E)
        /\ \A s2 \in (1..Len(jcrData)) \ {s} : ~JcrCarries(s2, I) /\ ~JcrCarries(s2, E)

\* the outcome of C3: one record under I and E, allocated for row p, with the
\* metrics of row s and the tier and Top flag of row p; no object allocated for s
C3_Merged(p, s) ==
    LET I == casIssn(casData[p])
        E == casEissn(casData[p])
    IN  /\ HasKey(journals, I) /\ HasKey(journals, E)
        /\ Lookup(journals, I) = Lookup(journals, E)
        /\ origin[Lookup(journals, I)] = <<"cas", p>>
        /\ LET r == heap[Lookup(journals, I)]
           IN  /\ r.if = parseFloat(jcrData[s].IF2024)
               /\ r.jcrQ = jcrData[s].IFQuartile2024
               /\ r.casQ = parseCasDivision(casData[p].Division).q
               /\ r.isTop = isTop(casData[p].Top)
        /\ \A x \in 1..Len(origin) : origin[x] # <<"jcr", s>>

\* what C3 leaves out: the secondary row carries no identifier of an excluded primary
\* row, and its ISSN, when it is not I, is absent or carried by no other row
C3_RowReachesRecord(p, s) ==
    LET I == casIssn(casData[p])
    IN  /\ \A p2 \in 1..Len(casData) :
              CasNamed(p2) /\ casExcluded(casData[p2])
                  => ~CasCarries(p2, JcrIssn(s)) /\ ~CasCarries(p2, JcrEissn(s))
        /\ \/ JcrIssn(s) = I
           \/ Falsy(JcrIssn(s))
           \/ /\ \A p2 \in 1..Len(casData) : ~CasCarries(p2, JcrIssn(s))
              /\ \A s2 \in (1..Len(jcrData)) \ {s} : ~JcrCarries(s2, JcrIssn(s))

\* C3 as stated: in its case, after convert() registry[I] and registry[E] are one
\* record with the secondary row's impact factor and quartile and the primary row's
\* tier and Top flag.
C3_Original ==
    pc = "done" =>
        \A p \in 1..Len(casData), s \in 1..Len(jcrData) :
            C3_Case(p, s) => C3_Merged(p, s)

\* C3 amended: the same, provided the secondary row carries no identifier of an
\* excluded primary row and its ISSN, when not I, is absent or carried by no other row.
C3_MergedWhenRowReachesRecord ==
    pc = "done" =>
        \A p \in 1..Len(casData), s \in 1..Len(jcrData) :
            C3_Case(p, s) /\ C3_RowReachesRecord(p, s) => C3_Merged(p, s)

\* a finished run in which the secondary row found the primary row's record by its
\* eISSN alone and its metrics were merged
C3_Witness ==
    /\ pc = "done"
    /\ \E p \in 1..Len(casData), s \in 1..Len(jcrData) :
          /\ C3_Case(p, s) /\ C3_RowReachesRecord(p, s)
          /\ JcrIssn(s) # casIssn(casData[p])
          /\ heap[Lookup(journals, casEissn(casData[p]))].if = numDiv(Number(91), Number(2))

\* C6: a step of the secondary pass changes the impact factor of an existing record
\* only to the number the row's field parses to, its quartile only to the row's
\* non-empty label, and no other field.
C6_MergeNeverClears ==
    [][ (pc = "jcr" /\ ji <= Len(jcrData) /\ ji' = ji + 1) =>
          \A ref \in 1..Len(heap) :
              LET a   == heap[ref]
                  b   == heap'[ref]
                  row == jcrData[ji]
              IN  /\ b.if # a.if =>
                        ~isNaN(parseFloat(row.IF2024)) /\ b.if = parseFloat(row.IF2024)
                  /\ b.jcrQ # a.jcrQ =>
                        ~Falsy(row.IFQuartile2024) /\ b.jcrQ = row.IFQuartile2024
                  /\ [b EXCEPT !.if = Null, !.jcrQ = Null]
                        = [a EXCEPT !.if = Null, !.jcrQ = Null]
      ]_vars

\* two secondary rows were merged into the one primary record: the first set its
\* impact factor and quartile, the second came with both fields blank
C6_Witness ==
    /\ pc = "jcr" /\ ji = 3
    /\ Len(heap) = 1 /\ origin[1][1] = "cas"
    /\ JcrNamed(1) /\ JcrNamed(2)
    /\ ~isNaN(parseFloat(jcrData[1].IF2024)) /\ ~Falsy(jcrData[1].IFQuartile2024)
    /\ isNaN(parseFloat(jcrData[2].IF2024)) /\ Falsy(jcrData[2].IFQuartile2024)
    /\ ~isBlacklisted(excludedIssns, JcrIssn(2), JcrEissn(2))
    /\ findExisting(journals, JcrIssn(2), JcrEissn(2)) = 1
    /\ heap[1].if = parseFloat(jcrData[1].IF2024)
    /\ heap[1].jcrQ = jcrData[1].IFQuartile2024

-----------------------------------------------------------------------------
(* Runtime: the background script.  scripts/convert-csv.js holds, from line 346  *)
(* on, the copy with the name index; extension/background.js is the copy that   *)
(* scans the registry.  calculateMatchScore, isSubsequence, parseName and       *)
(* normalizeJournalName are the same text in both.                              *)

V2 == "scripts/convert-csv.js"
BG == "extension/background.js"

\* normalizeISSN of background.js, line 260: issn.replace(/[\s-]/g, "").toUpperCase()
bg_normalizeISSN(issn) ==
    IF Falsy(issn) THEN <<>>
    ELSE toUpperCase(SelectSeq(issn, LAMBDA c : ~IsSpace(c) /\ c # "-"))

\* a character of [A-Z0-9]
IsAlnum(c) == InSeq(c, Upper) \/ IsDigit(c)

normalizeJournalName(name) ==
    IF Falsy(name) THEN <<>>
    ELSE trim(SelectSeq(toUpperCase(name), IsAlnum))

\* s.split(/\s+/).filter(w => w.length > 0)
RECURSIVE words(_)
words(s) ==
    LET t == trimStart(s)
        n == IF \E i \in 1..Len(t) : IsSpace(t[i])
             THEN (CHOOSE i \in 1..Len(t) : IsSpace(t[i]) /\ \A j \in 1..(i-1) : ~IsSpace(t[j])) - 1
             ELSE Len(t)
    IN  IF t = <<>> THEN <<>>
        ELSE <<SubSeq(t, 1, n)>> \o words(SubSeq(t, n + 1, Len(t)))

\* s.replace(/&/g, ' AND ')
RECURSIVE ampToAnd(_)
ampToAnd(s) ==
    IF s = <<>> THEN <<>>
    ELSE (IF s[1] = "&" THEN <<" ","A","N","D"," ">> ELSE <<s[1]>>) \o ampToAnd(Tail(s))

stopWords == {<<"T","H","E">>, <<"A">>, <<"A","N">>}

\* u.replace(/[^A-Z0-9\s]/g, ' ')
nonAlnumToSpace(u) ==
    [i \in 1..Len(u) |-> IF IsAlnum(u[i]) \/ IsSpace(u[i]) THEN u[i] ELSE " "]

\* parseName(name).words
parseName(name) ==
    SelectSeq(words(nonAlnumToSpace(ampToAnd(toUpperCase(name)))),
              LAMBDA w : w \notin stopWords)

\* the while loop of isSubsequence: i after the scan of s2 from j on
RECURSIVE subseqScan(_, _, _, _)
subseqScan(s1, s2, i, j) ==
    IF i <= Len(s1) /\ j <= Len(s2)
    THEN subseqScan(s1, s2, IF s1[i] = s2[j] THEN i + 1 ELSE i, j + 1)
    ELSE i

isSubsequence(s1, s2) ==
    IF Len(s1) > Len(s2) THEN FALSE
    ELSE IF Index(s1, 0) # Index(s2, 0) THEN FALSE
    ELSE subseqScan(s1, s2, 1, 1) = Len(s1) + 1

\* tWord.startsWith(qWord)
startsWith(t, q) == Len(q) <= Len(t) /\ SubSeq(t, 1, Len(q)) = q

\* the while loop of calculateMatchScore: matchCount when it ends
RECURSIVE coverageLoop(_, _, _, _, _)
coverageLoop(qw, tw, qIndex, tIndex, matchCount) ==
    IF qIndex <= Len(qw) /\ tIndex <= Len(tw)
    THEN IF startsWith(tw[tIndex], qw[qIndex]) \/ isSubsequence(qw[qIndex], tw[tIndex])
         THEN coverageLoop(qw, tw, qIndex + 1, tIndex + 1, matchCount + 1)
         ELSE coverageLoop(qw, tw, qIndex, tIndex + 1, matchCount)
    ELSE matchCount

suspiciousEndings ==
    {<<"O","F">>, <<"A","N","D">>, <<"T","H","E">>, <<"A">>, <<"A","N">>,
     <<"I","N">>, <<"O","N">>, <<"F","O","R">>}

\* Math.max(0, score)
nonNegative(score) == mathMax0(score)

\* if (score >= from) score -= Math.min(cap, extraWords * 2)
penalised(score, extraWords, from, cap) ==
    IF numGe(score, Number(from))
    THEN numSub(score, Number(Min(cap, extraWords * 2)))
    ELSE score

\* the score of matchCount matched words of a query of nq words and a target of
\* nt words: coverage = matchCount / nq, score = coverage * 100, lines 549-559
\* matchCount / nq * 100
percent(matchCount, nq) == numMul(numDiv(Number(matchCount), Number(nq)), Number(100))

scoreOfCount(nq, nt, matchCount, from, cap) ==
    nonNegative(penalised(percent(matchCount, nq), Max(0, nt - matchCount), from, cap))

\* calculateMatchScore from the words of the two names on, with the endings
\* that reject a query, the score the penalty starts at and the highest penalty
scoreOfWords(qw, tw, endings, from, cap) ==
    IF Len(qw) > Len(tw) THEN Number(0)
    ELSE IF Len(qw) > 0 /\ qw[Len(qw)] \in endings THEN Number(0)
    ELSE scoreOfCount(Len(qw), Len(tw), coverageLoop(qw, tw, 1, 1, 0), from, cap)

\* calculateMatchScore that lets a query end in AND
calculateMatchScore_AndEnds(q, target) ==
    IF Falsy(q) \/ Falsy(target) THEN Number(0)
    ELSE scoreOfWords(parseName(q), parseName(target),
                      suspiciousEndings \ {<<"A","N","D">>}, 90, 20)

\* calculateMatchScore with the penalty capped at 30
calculateMatchScore_Cap30(q, target) ==
    IF Falsy(q) \/ Falsy(target) THEN Number(0)
    ELSE scoreOfWords(parseName(q), parseName(target), suspiciousEndings, 90, 30)

\* calculateMatchScore with the penalty applied from 80 on
calculateMatchScore_From80(q, target) ==
    IF Falsy(q) \/ Falsy(target) THEN Number(0)
    ELSE scoreOfWords(parseName(q), parseName(target), suspiciousEndings, 80, 20)

calculateMatchScore(q, target) ==
    IF Falsy(q) \/ Falsy(target) THEN Number(0)
    ELSE scoreOfWords(parseName(q), parseName(target), suspiciousEndings, 90, 20)

\* ToBoolean(v) for a string, a number, a boolean, null or undefined
ToBoolean(v) == ~Falsy(v)

\* typeof v === 'number'
isNumber(v) == v \in {NaN, Infinity, NegInfinity} \/ (v # <<>> /\ v[1] = "number")

\* typeof v === 'string'
isString(v) ==
    \/ v = <<>>
    \/ v[1] \notin {"null", "undefined", "true", "false", "NaN", "Infinity", "-Infinity",
                    "number"}

\* name.toUpperCase() is reached and throws: if (name) holds and name, a number or
\* a boolean, has no toUpperCase
noToUpperCase(name) == ToBoolean(name) /\ ~isString(name)

\* a record of the registry has such a name
namesThrow(jd) == \E i \in 1..Len(jd) : noToUpperCase(jd[i].name)

\* what queryJournal does when it throws
Throws == -2

\* journalData[k] is set, and the record's index
HasEntry(jd, k) == \E i \in 1..Len(jd) : jd[i].key = k
EntryOf(jd, k) == CHOOSE i \in 1..Len(jd) : jd[i].key = k

\* name.toUpperCase().replace(/[^A-Z0-9\s]/g, '').trim().charAt(0)
firstChar(name) ==
    charAt(trim(SelectSeq(toUpperCase(name), LAMBDA c : IsAlnum(c) \/ IsSpace(c))), 0)

\* Object.values(journalData).filter(...): the candidates, in key order
candidates(jd, name) ==
    SelectSeq([i \in 1..Len(jd) |-> i],
              LAMBDA i : ~Falsy(jd[i].name) /\ firstChar(jd[i].name) = firstChar(name))


\* the loop over the candidates with the last of several best ones kept
RECURSIVE fuzzyLoop_LastWins(_, _, _, _, _, _)
fuzzyStep_LastWins(jd, name, cands, k, bestMatch, bestScore, score) ==
    IF numGe(score, bestScore) /\ numGt(score, Number(0))
    THEN fuzzyLoop_LastWins(jd, name, cands, k + 1, cands[k], score)
    ELSE fuzzyLoop_LastWins(jd, name, cands, k + 1, bestMatch, bestScore)

fuzzyLoop_LastWins(jd, name, cands, k, bestMatch, bestScore) ==
    IF k > Len(cands) THEN [match |-> bestMatch, score |-> bestScore]
    ELSE fuzzyStep_LastWins(jd, name, cands, k, bestMatch, bestScore,
                            calculateMatchScore(name, jd[cands[k]].name))

\* the loop over the candidates, convert-csv.js lines 483-489: bestMatch and
\* bestScore after the candidates from the k-th on; fuzzyStep is the body of the
\* loop once the candidate's score is known
RECURSIVE fuzzyLoop(_, _, _, _, _, _)
fuzzyStep(jd, name, cands, k, bestMatch, bestScore, score) ==
    IF numGt(score, bestScore)
    THEN fuzzyLoop(jd, name, cands, k + 1, cands[k], score)
    ELSE fuzzyLoop(jd, name, cands, k + 1, bestMatch, bestScore)

fuzzyLoop(jd, name, cands, k, bestMatch, bestScore) ==
    IF k > Len(cands) THEN [match |-> bestMatch, score |-> bestScore]
    ELSE fuzzyStep(jd, name, cands, k, bestMatch, bestScore,
                   calculateMatchScore(name, jd[cands[k]].name))

\* return bestScore >= 80 ? bestMatch : null
atLeast80(best) == IF numGe(best.score, Number(80)) THEN best.match ELSE 0

\* the approximate stage, convert-csv.js lines 469-495 and background.js lines
\* 123-150; the filter of the candidates calls j.name.toUpperCase() for every
\* record with a truthy name (lines 478-479)
fuzzyMatch(jd, name) ==
    IF namesThrow(jd) THEN Throws
    ELSE atLeast80(fuzzyLoop(jd, name, candidates(jd, name), 1, 0, Number(0)))

\* nameIndex.set(n, i) whatever the index holds
setIfAbsent_Overwrite(ni, n, i) == MapSet(ni, n, i)

\* if (!nameIndex.has(n)) nameIndex.set(n, i)
setIfAbsent(ni, n, i) == IF HasKey(ni, n) THEN ni ELSE Append(ni, <<n, i>>)

\* a value of "aliases" that for...of cannot iterate: the number 5
NotIterable == Number(5)

\* the loop over journal.aliases, convert-csv.js lines 379-386
RECURSIVE indexAliases(_, _, _, _)
indexAliases(ni, aliases, a, i) ==
    IF a > Len(aliases) THEN ni
    ELSE indexAliases(setIfAbsent(ni, normalizeJournalName(aliases[a]), i), aliases, a + 1, i)

\* the loop over journalData, convert-csv.js lines 369-387: the index when the
\* loop ends or throws
RECURSIVE buildNameIndex(_, _, _)
buildNameIndex(jd, i, ni) ==
    IF i > Len(jd) \/ noToUpperCase(jd[i].name) THEN ni
    ELSE LET n1 == IF ~Falsy(jd[i].name)
                   THEN setIfAbsent(ni, normalizeJournalName(jd[i].name), i)
                   ELSE ni
         IN  IF jd[i].aliases = NotIterable
             THEN n1
             ELSE buildNameIndex(jd, i + 1, indexAliases(n1, jd[i].aliases, 1, i))

\* the loop over journalData throws: normalizeJournalName on a name without
\* toUpperCase (lines 373, 616), for...of on aliases that cannot be iterated
indexThrows(jd) ==
    \E i \in 1..Len(jd) : noToUpperCase(jd[i].name) \/ jd[i].aliases = NotIterable

\* nameIndex.get(n), 0 for undefined
indexGet(ni, n) == IF HasKey(ni, n) THEN Lookup(ni, n) ELSE 0

\* lines 431-436 and 439-444: the identifier stages
byIssn(jd, q) ==
    IF ~Falsy(q.issn) /\ HasEntry(jd, normalizeISSN(q.issn))
    THEN EntryOf(jd, normalizeISSN(q.issn)) ELSE 0
byEissn(jd, q) ==
    IF ~Falsy(q.eissn) /\ HasEntry(jd, normalizeISSN(q.eissn))
    THEN EntryOf(jd, normalizeISSN(q.eissn)) ELSE 0

\* lines 448-454: the exact-name stage
directMatch(ni, name) == indexGet(ni, normalizeJournalName(name))

\* lines 458-467: the name before its first parenthesis
parenMatch(ni, name) ==
    LET paramIndex == indexOf(name, "(")
    IN  IF paramIndex > 0
        THEN indexGet(ni, normalizeJournalName(trim(SubSeq(name, 1, paramIndex))))
        ELSE 0

\* queryJournal with the name looked at before the identifiers
queryJournal_NameFirst(jdRef, niRef, q) ==
    IF jdRef = <<>> THEN 0
    ELSE LET jd == jdRef[1]
             ni == niRef[1]
             i1 == byIssn(jd, q)
             i2 == byEissn(jd, q)
             n1 == directMatch(ni, q.name)
             n2 == parenMatch(ni, q.name)
         IN  IF ~Falsy(q.name) /\ n1 # 0 THEN n1
             ELSE IF ~Falsy(q.name) /\ n2 # 0 THEN n2
             ELSE IF i1 # 0 THEN i1
             ELSE IF i2 # 0 THEN i2
             ELSE IF ~Falsy(q.name) THEN fuzzyMatch(jd, q.name)
             ELSE 0

\* queryJournal of convert-csv.js, lines 427-499
queryJournal(jdRef, niRef, q) ==
    IF jdRef = <<>> THEN 0
    ELSE LET jd == jdRef[1]
             ni == niRef[1]
             i1 == byIssn(jd, q)
             i2 == byEissn(jd, q)
             n1 == directMatch(ni, q.name)
             n2 == parenMatch(ni, q.name)
         IN  IF i1 # 0 THEN i1
             ELSE IF i2 # 0 THEN i2
             ELSE IF ~Falsy(q.name)
                  THEN IF n1 # 0 THEN n1
                       ELSE IF n2 # 0 THEN n2
                       ELSE fuzzyMatch(jd, q.name)
                  ELSE 0

\* background.js lines 67-80: the identifier stages
bg_byIssn(jd, q) ==
    IF ~Falsy(q.issn) /\ HasEntry(jd, bg_normalizeISSN(q.issn))
    THEN EntryOf(jd, bg_normalizeISSN(q.issn)) ELSE 0
bg_byEissn(jd, q) ==
    IF ~Falsy(q.eissn) /\ HasEntry(jd, bg_normalizeISSN(q.eissn))
    THEN EntryOf(jd, bg_normalizeISSN(q.eissn)) ELSE 0

\* background.js lines 84-105: the first record whose name or alias is the name
bg_matches(j, n) ==
    /\ ~noToUpperCase(j.name)
    /\ \/ normalizeJournalName(j.name) = n
       \/ /\ j.aliases # NotIterable
          /\ \E a \in 1..Len(j.aliases) : normalizeJournalName(j.aliases[a]) = n
\* normalizeJournalName throws on the name (lines 87, 271), or the name is another
\* one and for...of throws on the aliases
bg_throws(j, n) ==
    \/ noToUpperCase(j.name)
    \/ normalizeJournalName(j.name) # n /\ j.aliases = NotIterable
bg_directMatch(jd, name) ==
    LET n == normalizeJournalName(name)
        ends(i) == bg_matches(jd[i], n) \/ bg_throws(jd[i], n)
    IN  IF \E i \in 1..Len(jd) : ends(i)
        THEN LET i == CHOOSE k \in 1..Len(jd) : ends(k) /\ \A j \in 1..(k-1) : ~ends(j)
             IN  IF bg_throws(jd[i], n) THEN Throws ELSE i
        ELSE 0

\* background.js lines 109-121: the first record whose name is the name before "("
bg_parenMatch(jd, name) ==
    LET paramIndex == indexOf(name, "(")
        n == normalizeJournalName(trim(SubSeq(name, 1, paramIndex)))
        hit(i) == normalizeJournalName(jd[i].name) = n
    IN  IF paramIndex > 0 /\ \E i \in 1..Len(jd) : hit(i)
        THEN CHOOSE i \in 1..Len(jd) : hit(i) /\ \A j \in 1..(i-1) : ~hit(j)
        ELSE 0

\* queryJournal of background.js, lines 63-154
bg_queryJournal(jdRef, q) ==
    IF jdRef = <<>> THEN 0
    ELSE LET jd == jdRef[1]
             i1 == bg_byIssn(jd, q)
             i2 == bg_byEissn(jd, q)
             n1 == bg_directMatch(jd, q.name)
             n2 == bg_parenMatch(jd, q.name)
         IN  IF i1 # 0 THEN i1
             ELSE IF i2 # 0 THEN i2
             ELSE IF ~Falsy(q.name)
                  THEN IF n1 # 0 THEN n1
                       ELSE IF n2 # 0 THEN n2
                       ELSE fuzzyMatch(jd, q.name)
                  ELSE 0

\* loadJournalData of convert-csv.js, lines 358-400
LoadJournalData ==
    /\ script = V2
    /\ pc = "loading"
    /\ pc' = "serving"
    /\ IF artifact = <<>>
       THEN /\ dataLoaded' = FALSE
            /\ UNCHANGED <<journalData, nameIndex>>
       ELSE /\ journalData' = artifact
            /\ dataLoaded' = ~indexThrows(artifact[1])
            /\ nameIndex' = <<buildNameIndex(artifact[1], 1, <<>>)>>
    /\ UNCHANGED <<script, artifact, query, result, msg, queries, results, status>>
    /\ UNCHANGED cdata
    /\ UNCHANGED nvars
    /\ UNCHANGED pvars

\* loadJournalData of background.js, lines 10-28
BgLoadJournalData ==
    /\ script = BG
    /\ pc = "loading"
    /\ pc' = "serving"
    /\ IF artifact = <<>>
       THEN /\ dataLoaded' = FALSE
            /\ UNCHANGED journalData
       ELSE /\ journalData' = artifact
            /\ dataLoaded' = TRUE
    /\ UNCHANGED <<script, artifact, nameIndex, query, result, msg, queries, results, status>>
    /\ UNCHANGED cdata
    /\ UNCHANGED nvars
    /\ UNCHANGED pvars

-----------------------------------------------------------------------------
(* Inputs of the runtime *)

MaxEntries == 2

\* the key of the i-th entry of the artifact: a 7-digit key (an integer-like key
\* comes first in the key order of an object), then hyphenated keys
Key7 == <<"7","7","7","7","7","7","7">>
Key7Hyphen == <<"7","7","7","-","7","7","7","7">>

RegistryKey(i) ==
    IF i = 1 THEN Key7
    ELSE LET d == Digit[i] IN <<d, d, d, d, "-", d, d, d, d>>

\* what a record of the artifact holds of what the resolver reads: name and aliases
RegistryRecords ==
    { [name |-> <<"C","e","l","l">>, aliases |-> <<>>],
      [name |-> <<"C","E","L","L",".">>, aliases |-> <<>>],
      [name |-> <<"B"," ","C"," ","D"," ","E"," ","F">>, aliases |-> <<>>],
      [name |-> <<"B"," ","C"," ","D"," ","E"," ","G">>, aliases |-> <<>>],
      [name |-> <<"B","x"," ","C","x">>, aliases |-> << <<"C","e","l","l">> >>],
      [name |-> <<"C","e","l","l">>, aliases |-> NotIterable],
      [name |-> False, aliases |-> << <<"C","e","l","l">> >>],
      [name |-> Zero(1), aliases |-> <<>>] }

Artifacts ==
    UNION { { [i \in 1..n |-> [key |-> RegistryKey(i), name |-> r[i].name,
                               aliases |-> r[i].aliases]] :
                r \in [1..n -> RegistryRecords] } :
            n \in 0..MaxEntries }

QueryIds ==
    { [issn |-> Undefined, eissn |-> Undefined], [issn |-> RawA, eissn |-> Undefined],
      [issn |-> Key7Hyphen, eissn |-> Key7], [issn |-> Undefined, eissn |-> IdA] }

QueryNames ==
    { Undefined, <<"c","e","l","l">>, <<"C","e","l","l"," ","(","B","a","s","e","l",")">>,
      <<"B"," ","C"," ","D"," ","E"," ","X">>, <<"B"," ","C">>, <<"B"," ","C"," ","D"," ","X">>,
      <<"a"," ","B","x"," ","C","x">> }

\* the names a query that carries an identifier is sent with
IdentifiedNames ==
    { Undefined, <<"c","e","l","l">>, <<"B"," ","C"," ","D"," ","E"," ","X">> }

\* the queries: every name without an identifier, and every identifier with the
\* names it is sent with
Queries ==
    { [issn |-> Undefined, eissn |-> Undefined, name |-> n] : n \in QueryNames }
    \cup { [issn |-> i.issn, eissn |-> i.eissn, name |-> n] :
             i \in QueryIds, n \in IdentifiedNames }

\* the queryJournal message answered, and the name remembered in the name index
OnQueryJournal_Memo ==
    /\ script = V2
    /\ pc \in {"loading", "serving"}
    /\ \E q \in Queries :
          LET r == queryJournal(journalData, nameIndex, q)
          IN  /\ query' = q
              /\ result' = r
              /\ nameIndex' = IF nameIndex # <<>> /\ r >= 1 /\ ~Falsy(q.name)
                               THEN <<MapSet(nameIndex[1], normalizeJournalName(q.name), r)>>
                               ELSE nameIndex
    /\ msg' = "queryJournal"
    /\ queries' = <<>>
    /\ results' = NoResults
    /\ status' = NoStatus
    /\ UNCHANGED <<script, artifact, journalData, dataLoaded>>
    /\ UNCHANGED cvars
    /\ UNCHANGED nvars
    /\ UNCHANGED pvars

\* the queryJournal message, convert-csv.js lines 406-410
OnQueryJournal ==
    /\ script = V2
    /\ pc \in {"loading", "serving"}
    /\ \E q \in Queries :
          /\ query' = q
          /\ result' = queryJournal(journalData, nameIndex, q)
    /\ msg' = "queryJournal"
    /\ queries' = <<>>
    /\ results' = NoResults
    /\ status' = NoStatus
    /\ UNCHANGED <<script, artifact, journalData, nameIndex, dataLoaded>>
    /\ UNCHANGED cvars
    /\ UNCHANGED nvars
    /\ UNCHANGED pvars

\* the queryJournal message, background.js lines 34-38
BgOnQueryJournal ==
    /\ script = BG
    /\ pc \in {"loading", "serving"}
    /\ \E q \in Queries :
          /\ query' = q
          /\ result' = bg_queryJournal(journalData, q)
    /\ msg' = "queryJournal"
    /\ queries' = <<>>
    /\ results' = NoResults
    /\ status' = NoStatus
    /\ UNCHANGED <<script, artifact, journalData, nameIndex, dataLoaded>>
    /\ UNCHANGED cvars
    /\ UNCHANGED nvars
    /\ UNCHANGED pvars

MaxBatch == 2

\* "__proto__", the accessor property of Object.prototype
ProtoName == <<"_","_","p","r","o","t","o","_","_">>

\* the keys of the queries of a batch that ask for an identifier, a name and the
\* text "undefined", and of those that ask for a name: an array index, the name
\* of the prototype accessor, and no key at all
IdentifierKeys == { <<"u","n","d","e","f","i","n","e","d">> }
NameKeys == { <<"7">>, ProtoName, Undefined }

\* the property name results[key] uses for a key that is a string or is missing
propertyKey(key) ==
    IF key = Undefined THEN <<"u","n","d","e","f","i","n","e","d">> ELSE key

\* the queries of a batch, each with its key
BatchQueries ==
    { [key |-> k, issn |-> Key7Hyphen, eissn |-> Key7, name |-> Undefined] :
        k \in IdentifierKeys }
    \cup { [key |-> k, issn |-> Undefined, eissn |-> Undefined, name |-> <<"c","e","l","l">>] :
             k \in NameKeys }

Batches == SeqsUpTo(BatchQueries, MaxBatch)

\* background.js lines 41-45: the loop over message.queries, rs[k] being what
\* queryJournal gives for qs[k]; the handler throws when a query does. results is
\* a plain object: res holds its own properties and proto its prototype. The
\* assignment results["__proto__"] = v reaches the accessor of Object.prototype,
\* which makes v, a record or null, the prototype of results and adds no
\* property; once the prototype is null the accessor is out of reach and the
\* assignment adds the property.
RECURSIVE bg_batchLoop(_, _, _, _, _)
bg_batchLoop(qs, rs, k, res, proto) ==
    IF k > Len(qs) THEN [kind |-> "map", entries |-> res, proto |-> proto]
    ELSE IF rs[k] = Throws
         THEN [kind |-> "throws", entries |-> <<>>, proto |-> ObjectPrototype]
    ELSE IF propertyKey(qs[k].key) = ProtoName /\ proto # 0
         THEN bg_batchLoop(qs, rs, k + 1, res, rs[k])
    ELSE bg_batchLoop(qs, rs, k + 1, Assign(res, propertyKey(qs[k].key), rs[k]), proto)

\* the queryBatch message, background.js lines 40-46
BgOnQueryBatch ==
    /\ script = BG
    /\ pc \in {"loading", "serving"}
    /\ \E b \in Batches :
          /\ queries' = b
          /\ results' = bg_batchLoop(b, [k \in 1..Len(b) |-> bg_queryJournal(journalData, b[k])],
                                      1, <<>>, ObjectPrototype)
    /\ msg' = "queryBatch"
    /\ query' = NoQuery
    /\ result' = -1
    /\ status' = NoStatus
    /\ UNCHANGED <<script, artifact, journalData, nameIndex, dataLoaded>>
    /\ UNCHANGED cvars
    /\ UNCHANGED nvars
    /\ UNCHANGED pvars

\* the queryBatch message, convert-csv.js lines 405-420: no branch of the listener
\* is for it and the listener returns false
OnQueryBatch ==
    /\ script = V2
    /\ pc \in {"loading", "serving"}
    /\ \E b \in Batches : queries' = b
    /\ results' = [kind |-> "false", entries |-> <<>>, proto |-> ObjectPrototype]
    /\ msg' = "queryBatch"
    /\ query' = NoQuery
    /\ result' = -1
    /\ status' = NoStatus
    /\ UNCHANGED <<script, artifact, journalData, nameIndex, dataLoaded>>
    /\ UNCHANGED cvars
    /\ UNCHANGED nvars
    /\ UNCHANGED pvars

\* { dataLoaded, entryCount: journalData ? Object.keys(journalData).length : 0 }
getStatus(jdRef, loaded) ==
    [dataLoaded |-> loaded, entryCount |-> IF jdRef = <<>> THEN 0 ELSE Len(jdRef[1])]

\* the getStatus message, convert-csv.js lines 412-417
OnGetStatus ==
    /\ script = V2
    /\ pc \in {"loading", "serving"}
    /\ status' = getStatus(journalData, dataLoaded)
    /\ msg' = "getStatus"
    /\ query' = NoQuery
    /\ result' = -1
    /\ queries' = <<>>
    /\ results' = NoResults
    /\ UNCHANGED <<script, artifact, journalData, nameIndex, dataLoaded>>
    /\ UNCHANGED cvars
    /\ UNCHANGED nvars
    /\ UNCHANGED pvars

\* the getStatus message, background.js lines 48-53
BgOnGetStatus ==
    /\ script = BG
    /\ pc \in {"loading", "serving"}
    /\ status' = getStatus(journalData, dataLoaded)
    /\ msg' = "getStatus"
    /\ query' = NoQuery
    /\ result' = -1
    /\ queries' = <<>>
    /\ results' = NoResults
    /\ UNCHANGED <<script, artifact, journalData, nameIndex, dataLoaded>>
    /\ UNCHANGED cvars
    /\ UNCHANGED nvars
    /\ UNCHANGED pvars

ConvertIdle ==
    /\ casData = <<>>
    /\ jcrData = <<>>
    /\ ci = 1
    /\ ji = 1
    /\ journals = <<>>
    /\ heap = <<>>
    /\ excludedIssns = {}
    /\ origin = <<>>
    /\ output = <<>>
    /\ files = [cas |-> TRUE, jcr |-> TRUE]
    /\ written = FALSE
    /\ exitStatus = -1

QueryInit ==
    /\ script \in {V2, BG}
    /\ artifact \in {<<>>} \cup {<<a>> : a \in Artifacts}
    /\ journalData = <<>>
    /\ nameIndex = <<>>
    /\ dataLoaded = FALSE
    /\ NoMessage
    /\ pc = "loading"
    /\ ConvertIdle
    /\ PureIdle
    /\ PageIdle

QueryNext ==
    \/ LoadJournalData \/ BgLoadJournalData
    \/ OnQueryJournal \/ BgOnQueryJournal
    \/ OnQueryBatch \/ BgOnQueryBatch
    \/ OnGetStatus \/ BgOnGetStatus

SpecQuery == QueryInit /\ [][QueryNext]_vars

-----------------------------------------------------------------------------
(* Properties of the runtime *)

\* a step in which a message was answered from a loaded registry
Answered == journalData # <<>> /\ <<query, result>>' # <<query, result>>

\* the normalizer of the running copy
ScriptNormalize(x) == IF script = V2 THEN normalizeISSN(x) ELSE bg_normalizeISSN(x)

\* the record (0 for none) the exact-name and parenthesis-stripped stages of the
\* running copy give for a name
ScriptNameStages(jd, ni, name) ==
    IF Falsy(name) THEN 0
    ELSE IF script = V2
         THEN IF directMatch(ni[1], name) # 0 THEN directMatch(ni[1], name)
              ELSE parenMatch(ni[1], name)
         ELSE IF bg_directMatch(jd, name) # 0 THEN bg_directMatch(jd, name)
              ELSE bg_parenMatch(jd, name)

\* the query's issn, or else its eissn, is a key once normalized: the key's record
IdentifierHit(jd, q) ==
    IF ~Falsy(q.issn) /\ HasEntry(jd, ScriptNormalize(q.issn))
    THEN EntryOf(jd, ScriptNormalize(q.issn))
    ELSE IF ~Falsy(q.eissn) /\ HasEntry(jd, ScriptNormalize(q.eissn))
         THEN EntryOf(jd, ScriptNormalize(q.eissn))
         ELSE 0

\* C4: a query answered from a loaded registry whose normalized issn is a key gets
\* the record under that key, otherwise, if its normalized eissn is a key, the
\* record under that one, whatever record its name resolves to.
C4_IdentifierFirst ==
    [][ Answered => (IdentifierHit(journalData[1], query') # 0
                        => result' = IdentifierHit(journalData[1], query')) ]_vars

\* C4: an answered query whose issn is the key of one record and whose name is the
\* exact name of another got the record of the issn.
C4_Witness ==
    /\ script = V2 /\ journalData # <<>> /\ result >= 1
    /\ ~Falsy(query.issn) /\ ~Falsy(query.name)
    /\ HasEntry(journalData[1], normalizeISSN(query.issn))
    /\ result = EntryOf(journalData[1], normalizeISSN(query.issn))
    /\ directMatch(nameIndex[1], query.name) \notin {0, result}

\* C5: in background.js, a query {issn: x} whose x the build step's normalizeISSN
\* maps to a key k of the registry is answered with
\* the record under k.
C5_BuildKeyIsFound ==
    [][ (Answered /\ script = BG /\ ~Falsy(query'.issn)
           /\ HasEntry(journalData[1], normalizeISSN(query'.issn)))
        => result' = EntryOf(journalData[1], normalizeISSN(query'.issn)) ]_vars

\* a record's name or one of its aliases normalizes to n
NormalizesTo(j, n) ==
    \/ ~Falsy(j.name) /\ normalizeJournalName(j.name) = n
    \/ /\ j.aliases # NotIterable
       /\ \E a \in 1..Len(j.aliases) : normalizeJournalName(j.aliases[a]) = n

\* C7: once the registry is loaded, every normalized name of the Name Index is
\* mapped to the first record, in registry order, whose name or alias normalizes
\* to it, and the index holds the name once.
C7_NameIndexFirstWins ==
    nameIndex # <<>> =>
        LET jd == journalData[1]
            ni == nameIndex[1]
        IN  \A e \in 1..Len(ni) :
                /\ ni[e][2] \in 1..Len(jd)
                /\ NormalizesTo(jd[ni[e][2]], ni[e][1])
                /\ \A j \in 1..(ni[e][2] - 1) : ~NormalizesTo(jd[j], ni[e][1])
                /\ \A f \in 1..Len(ni) : ni[f][1] = ni[e][1] => f = e

\* C7: the registry is loaded, two records share a normalized name, and the index
\* maps that name to the first of them.
C7_Witness ==
    /\ nameIndex # <<>>
    /\ \E e \in 1..Len(nameIndex[1]) :
          \E j \in 1..Len(journalData[1]) :
             /\ nameIndex[1][e][2] < j
             /\ NormalizesTo(journalData[1][j], nameIndex[1][e][1])

\* the identifier, exact-name and parenthesis-stripped stages all miss
ReachesFuzzy(jd, ni, q) ==
    /\ IdentifierHit(jd, q) = 0
    /\ ~Falsy(q.name)
    /\ ScriptNameStages(jd, ni, q.name) = 0

\* the candidates of the approximate stage, as a set
CandidateSet(jd, name) ==
    {i \in 1..Len(jd) : ~Falsy(jd[i].name) /\ firstChar(jd[i].name) = firstChar(name)}

\* the score of every record of the registry for a name
Scores(jd, name) ==
    seqOf([i \in 1..Len(jd) |-> calculateMatchScore(name, jd[i].name)], Len(jd))

\* r is the first of the candidates cs of maximum score, sc the scores
FirstOfMaximum(cs, sc, r) ==
    /\ r \in cs
    /\ \A j \in cs : numGe(sc[r], sc[j]) /\ (j < r => numGt(sc[r], sc[j]))

\* r is the first of the candidates of maximum score when that score is at least
\* 80, and no record otherwise
BestAtLeast80(cs, sc, r) ==
    IF \E i \in cs : numGe(sc[i], Number(80)) THEN FirstOfMaximum(cs, sc, r) ELSE r = 0

\* C10: a query answered from a loaded registry that the identifier, exact-name and
\* parenthesis-stripped stages all miss gets the candidate of maximum score when
\* that maximum is at least 80, the first in registry order of those that share
\* it, and no match otherwise.
C10_BestAtLeast80 ==
    [][ (Answered /\ ReachesFuzzy(journalData[1], nameIndex, query')) =>
          BestAtLeast80(CandidateSet(journalData[1], query'.name),
                        Scores(journalData[1], query'.name), result') ]_vars

\* C10: an answered query that reached the approximate stage got the first of two
\* candidates that share the maximum score, and that score is at least 80.
C10_Witness ==
    /\ journalData # <<>> /\ result >= 1
    /\ ReachesFuzzy(journalData[1], nameIndex, query)
    /\ \E j \in CandidateSet(journalData[1], query.name) :
          /\ j > result
          /\ numEq(calculateMatchScore(query.name, journalData[1][j].name),
                     calculateMatchScore(query.name, journalData[1][result].name))

-----------------------------------------------------------------------------
(* normalizeISSN of convert-csv.js on its own, as the build step calls it    *)
(* (lines 171-172 and 220-221) and as the resolver calls it (lines 432 and    *)
(* 440): applied to an input and then to its own result.                      *)

MaxShort == 3

IssnAlphabet == {"1", "-", " ", "/", "N", "A", "n", "a"}

\* the codes of eight or nine characters, with and without hyphen, blanks and a
\* lower-case check character, or a last character that upper-cases to two
LongIssnInputs ==
    { pre \o <<"1","2","3","4">> \o mid \o <<"5","6","7">> \o last :
        pre \in {<<>>, <<" ">>}, mid \in {<<>>, <<"-">>, <<" ">>},
        last \in {<<>>, <<"8">>, <<"x">>, <<"X">>, <<"U+00DF">>} }

IssnInputs == SeqsUpTo(IssnAlphabet, MaxShort) \cup LongIssnInputs \cup {Undefined}

\* normalizeISSN(x) called by convert(), lines 171-172 and 220-221: x is a part of
\* a cell, or undefined when the cell has no such part
BuildNormalize ==
    /\ pc = "call"
    /\ pc' = "build"
    /\ ret' = normalizeISSN(arg)
    /\ UNCHANGED arg
    /\ UNCHANGED cdata
    /\ UNCHANGED rvars
    /\ UNCHANGED pvars

\* normalizeISSN(normalizeISSN(x)) after that call
BuildNormalizeAgain ==
    /\ pc = "build"
    /\ pc' = "build2"
    /\ arg' = ret
    /\ ret' = normalizeISSN(ret)
    /\ UNCHANGED cdata
    /\ UNCHANGED rvars
    /\ UNCHANGED pvars

\* normalizeISSN(x) called by queryJournal, lines 431-432 and 439-440: the call is
\* made for a truthy x only
RuntimeNormalize ==
    /\ pc = "call"
    /\ ~Falsy(arg)
    /\ pc' = "runtime"
    /\ ret' = normalizeISSN(arg)
    /\ UNCHANGED arg
    /\ UNCHANGED cdata
    /\ UNCHANGED rvars
    /\ UNCHANGED pvars

\* normalizeISSN(normalizeISSN(x)) after that call
RuntimeNormalizeAgain ==
    /\ pc = "runtime"
    /\ pc' = "runtime2"
    /\ arg' = ret
    /\ ret' = normalizeISSN(ret)
    /\ UNCHANGED cdata
    /\ UNCHANGED rvars
    /\ UNCHANGED pvars

NormalizeInit ==
    /\ arg \in IssnInputs
    /\ ret = Null
    /\ pc = "call"
    /\ ConvertIdle
    /\ RuntimeIdle
    /\ PageIdle

NormalizeNext ==
    BuildNormalize \/ BuildNormalizeAgain \/ RuntimeNormalize \/ RuntimeNormalizeAgain

SpecNormalize == NormalizeInit /\ [][NormalizeNext]_vars

NotApplicable == <<"N","/","A">>

\* C8: normalizeISSN applied to its own result gives that result again, and an
\* input whose whitespace-stripped form has 8 characters and
\* no hyphen comes back with a hyphen after the 4th character.
C8_Idempotent ==
    /\ pc \in {"build2", "runtime2"} => ret = arg
    /\ (pc \in {"build", "runtime"} /\ ~Falsy(arg)
           /\ Len(StripSpaces(arg)) = 8 /\ ~InSeq("-", arg))
        => (Len(ret) = 9 /\ ret[5] = "-")

\* C9: the build step's normalizeISSN returns null for an input whose
\* whitespace-stripped, upper-cased form is empty or the N/A marker, and returns
\* neither the empty string nor the marker.
C9_NullForEmptyOrMarker ==
    pc \in {"build", "runtime"} =>
        /\ (Falsy(arg) \/ toUpperCase(StripSpaces(arg)) \in {<<>>, NotApplicable})
               => ret = Null
        /\ ret \notin {<<>>, NotApplicable}

-----------------------------------------------------------------------------
(* calculateMatchScore on its own: one call on a query name and a target name   *)

MaxWords == 2
MaxExtra == 12

\* the words of ws with one blank between them
RECURSIVE joinWords(_)
joinWords(ws) ==
    IF ws = <<>> THEN <<>>
    ELSE IF Len(ws) = 1 THEN ws[1]
    ELSE ws[1] \o <<" ">> \o joinWords(Tail(ws))

\* n times the word w
RECURSIVE repeatWord(_, _)
repeatWord(w, n) == IF n = 0 THEN <<>> ELSE <<w>> \o repeatWord(w, n - 1)

QueryVocabulary ==
    { <<"B">>, <<"B","x">>, <<"C">>, <<"o","f">>, <<"t","h","e">>, <<"&">> }

TargetVocabulary == { <<"B","x">>, <<"C","x">>, <<"o","f">>, <<"t","h","e">> }

JournalOf == <<"J","o","u","r","n","a","l"," ","o","f">>
JournalOfFinance == JournalOf \o <<" ","F","i","n","a","n","c","e">>
JBiolChem == <<"J"," ","B","i","o","l"," ","C","h","e","m">>
JournalOfBiologicalChemistry ==
    JournalOf \o <<" ","B","i","o","l","o","g","i","c","a","l"," ",
                   "C","h","e","m","i","s","t","r","y">>

\* ten words of which the last matches no B-word: coverage 9 of 10
NineOfTen == joinWords(repeatWord(<<"B">>, 9) \o << <<"X">> >>)

\* five words of which the last matches no B-word: coverage 4 of 5
FourOfFive == joinWords(repeatWord(<<"B">>, 4) \o << <<"X">> >>)

ScoreQueries ==
    { joinWords(ws) : ws \in SeqsUpTo(QueryVocabulary, MaxWords) }
        \cup { JournalOf, JBiolChem, NineOfTen, FourOfFive }

\* a name, then n more words of which the query matches none (Z) or all (Bx)
ScoreTargets ==
    { joinWords(ws) : ws \in SeqsUpTo(TargetVocabulary, MaxWords) }
        \cup { joinWords(<< <<"B","x">> >> \o repeatWord(<<"Z">>, n)) : n \in 0..MaxExtra }
        \cup { joinWords(repeatWord(<<"B","x">>, n)) : n \in 5..MaxExtra }
        \cup { JournalOfFinance, JournalOfBiologicalChemistry }

\* calculateMatchScore(query, target)
CallCalculateMatchScore ==
    /\ pc = "call"
    /\ pc' = "scored"
    /\ ret' = calculateMatchScore(arg.q, arg.t)
    /\ UNCHANGED arg
    /\ UNCHANGED cdata
    /\ UNCHANGED rvars
    /\ UNCHANGED pvars

ScoreInit ==
    /\ arg \in [q : ScoreQueries, t : ScoreTargets]
    /\ ret = Null
    /\ pc = "call"
    /\ ConvertIdle
    /\ RuntimeIdle
    /\ PageIdle

ScoreNext == CallCalculateMatchScore

SpecScore == ScoreInit /\ [][ScoreNext]_vars

-----------------------------------------------------------------------------
(* Properties of calculateMatchScore *)

\* the dangling connectors
DanglingConnectors ==
    {<<"O","F">>, <<"A","N","D">>, <<"T","H","E">>, <<"A">>, <<"A","N">>,
     <<"I","N">>, <<"O","N">>, <<"F","O","R">>}

\* the last token of a name is a dangling connector
EndsDangling(name) ==
    ~Falsy(name) /\ Len(parseName(name)) > 0
        /\ parseName(name)[Len(parseName(name))] \in DanglingConnectors

\* the score is the number 0
IsZero(score) == numEq(score, Number(0))

\* C11: a query whose last token is one of OF, AND, THE, A, AN, IN, ON, FOR scores
\* 0 against every target.
C11_TruncationGuard ==
    (pc = "scored" /\ EndsDangling(arg.q)) => IsZero(ret)

\* C11: "Journal of" was scored against "Journal of Finance", a target whose first
\* tokens are the query's, and the score is 0.
C11_Witness ==
    /\ pc = "scored"
    /\ arg.q = JournalOf /\ arg.t = JournalOfFinance
    /\ EndsDangling(arg.q)
    /\ IsZero(ret)

\* every token of the query is matched, in order, by the greedy alignment
FullCoverage(q, t) ==
    /\ ~Falsy(q) /\ ~Falsy(t)
    /\ Len(parseName(q)) > 0
    /\ Len(parseName(q)) <= Len(parseName(t))
    /\ coverageLoop(parseName(q), parseName(t), 1, 1, 0) = Len(parseName(q))

\* C12: a query of at least one token that does not end in a dangling connector
\* scores at least 80 against a target that matches every one of its tokens,
\* however many more tokens the target has.
C12_FullCoverageAccepted ==
    (pc = "scored" /\ FullCoverage(arg.q, arg.t) /\ ~EndsDangling(arg.q))
        => numGe(ret, Number(80))

\* C12: a fully covered query was scored against a target with more than ten
\* tokens it does not match, and the score is 80.
C12_Witness ==
    /\ pc = "scored"
    /\ FullCoverage(arg.q, arg.t) /\ ~EndsDangling(arg.q)
    /\ Len(parseName(arg.t)) - Len(parseName(arg.q)) > 10
    /\ numEq(ret, Number(80))

\* the call reaches the score calculation of lines 549-559 with a number as coverage
ReachesPenalty(q, t) ==
    /\ ~Falsy(q) /\ ~Falsy(t)
    /\ Len(parseName(q)) > 0
    /\ Len(parseName(q)) <= Len(parseName(t))
    /\ ~EndsDangling(q)

\* C13: the score is the coverage score, matched / query tokens * 100, when that
\* is below 90, and the coverage score less min(20, 2 * max(0, target tokens -
\* matched)) when it is at least 90.
C13_PenaltyFrom90 ==
    (pc = "scored" /\ ReachesPenalty(arg.q, arg.t)) =>
        LET n == Len(parseName(arg.q))
            t == Len(parseName(arg.t))
            m == coverageLoop(parseName(arg.q), parseName(arg.t), 1, 1, 0)
            d == IF 2 * (t - m) < 0 THEN 0 ELSE IF 2 * (t - m) > 20 THEN 20 ELSE 2 * (t - m)
            c == numMul(numDiv(Number(m), Number(n)), Number(100))
        IN  IF numGe(c, Number(90))
            THEN ret = numSub(c, Number(d))
            ELSE ret = c

\* C13: a query with 9 of its 10 tokens matched was scored against a target with
\* more tokens than were matched: the coverage score is 90 and the score is less.
C13_Witness ==
    /\ pc = "scored"
    /\ ReachesPenalty(arg.q, arg.t)
    /\ Len(parseName(arg.q)) = 10
    /\ coverageLoop(parseName(arg.q), parseName(arg.t), 1, 1, 0) = 9
    /\ Len(parseName(arg.t)) > 9
    /\ ~numGe(ret, Number(90))
    /\ numGe(ret, Number(70))

-----------------------------------------------------------------------------
(* parseCSVLine on its own: one call on a line *)

\* parseCSVLine in which a quote always toggles inQuotes
RECURSIVE csvScan_Toggle(_, _, _, _, _)
csvScan_Toggle(line, i, current, inQuotes, fields) ==
    IF i > Len(line) THEN Append(fields, trim(current))
    ELSE IF line[i] = "\""
         THEN csvScan_Toggle(line, i + 1, current, ~inQuotes, fields)
         ELSE IF line[i] = "," /\ ~inQuotes
              THEN csvScan_Toggle(line, i + 1, <<>>, inQuotes, Append(fields, trim(current)))
              ELSE csvScan_Toggle(line, i + 1, Append(current, line[i]), inQuotes, fields)

parseCSVLine_Toggle(line) == csvScan_Toggle(line, 1, <<>>, FALSE, <<>>)

\* the loop of parseCSVLine, lines 54-70, from the character i on (i counts from 1),
\* and the last push of line 72
RECURSIVE csvScan(_, _, _, _, _)
csvScan(line, i, current, inQuotes, fields) ==
    IF i > Len(line) THEN Append(fields, trim(current))
    ELSE IF line[i] = "\""
         THEN IF inQuotes /\ i + 1 <= Len(line) /\ line[i + 1] = "\""
              THEN csvScan(line, i + 2, Append(current, "\""), inQuotes, fields)
              ELSE csvScan(line, i + 1, current, ~inQuotes, fields)
         ELSE IF line[i] = "," /\ ~inQuotes
              THEN csvScan(line, i + 1, <<>>, inQuotes, Append(fields, trim(current)))
              ELSE csvScan(line, i + 1, Append(current, line[i]), inQuotes, fields)

parseCSVLine(line) == csvScan(line, 1, <<>>, FALSE, <<>>)

MaxLine == 5
MaxValue == 3

CsvAlphabet == {"a", ",", "\"", " "}

\* the value v written as a quoted field: its quotes doubled, a quote around it
RECURSIVE doubleQuotes(_)
doubleQuotes(v) ==
    IF v = <<>> THEN <<>>
    ELSE (IF v[1] = "\"" THEN <<"\"", "\"">> ELSE <<v[1]>>) \o doubleQuotes(Tail(v))

quoted(v) == <<"\"">> \o doubleQuotes(v) \o <<"\"">>

CsvValues == SeqsUpTo(CsvAlphabet, MaxValue)

\* Cell, "Press"   and the line   "Cell, ""Press"""
CellPress == <<"C","e","l","l",","," ","\"","P","r","e","s","s","\"">>
CellPressLine == quoted(CellPress)

CsvLines ==
    SeqsUpTo(CsvAlphabet, MaxLine) \cup {quoted(v) : v \in CsvValues} \cup {CellPressLine}

\* parseCSVLine(line)
CallParseCSVLine ==
    /\ pc = "call"
    /\ pc' = "parsed"
    /\ ret' = parseCSVLine(arg)
    /\ UNCHANGED arg
    /\ UNCHANGED cdata
    /\ UNCHANGED rvars
    /\ UNCHANGED pvars

CsvInit ==
    /\ arg \in CsvLines
    /\ ret = Null
    /\ pc = "call"
    /\ ConvertIdle
    /\ RuntimeIdle
    /\ PageIdle

CsvNext == CallParseCSVLine

SpecCsv == CsvInit /\ [][CsvNext]_vars

\* the number of quote characters among the first n characters of the line
RECURSIVE quotesBefore(_, _)
quotesBefore(line, n) ==
    IF n = 0 THEN 0
    ELSE quotesBefore(line, n - 1) + (IF line[n] = "\"" THEN 1 ELSE 0)

\* the commas of the line that are outside quotes
UnquotedCommas(line) ==
    {i \in 1..Len(line) : line[i] = "," /\ quotesBefore(line, i - 1) % 2 = 0}

\* C18: a quoted value, commas and doubled quotes included, parses to the one field
\* it denotes (trimmed, as every field is); the line "Cell, ""Press""" parses to
\* the one field Cell, "Press"; a line with k unquoted commas yields k + 1 fields.
C18_QuotedFields ==
    pc = "parsed" =>
        /\ \A v \in CsvValues : arg = quoted(v) => ret = <<trim(v)>>
        /\ arg = CellPressLine => ret = <<CellPress>>
        /\ Len(ret) = Cardinality(UnquotedCommas(arg)) + 1

\* C18: the line "Cell, ""Press""" was parsed to the one field Cell, "Press".
C18_Witness ==
    /\ pc = "parsed"
    /\ arg = CellPressLine
    /\ ret = <<CellPress>>

-----------------------------------------------------------------------------
(* Properties of the build step when an input file cannot be read *)

\* C16: in a run in which reading an input file fails, the output file is not
\* written, at any point of the run.
C16_NoWriteOnReadFailure ==
    (~files.cas \/ ~files.jcr) => (~written /\ output = <<>>)

\* C16: the run ended on a JCR file that cannot be read, the CAS file having been
\* read, and nothing was written.
C16_Witness ==
    /\ pc = "failed"
    /\ files.cas /\ ~files.jcr
    /\ casData # <<>>
    /\ ~written

C14_FailedLoadNoMatch ==
    [][(pc = "serving" /\ ~dataLoaded /\ pc' = pc) =>
          /\ (msg' = "queryJournal" => result' = 0)
          /\ (msg' = "getStatus" => status'.dataLoaded = FALSE)]_vars


\* what a single queryJournal message gives the running copy for a query
singleAnswer(q) ==
    IF script = V2 THEN queryJournal(journalData, nameIndex, q)
    ELSE bg_queryJournal(journalData, q)

\* a step in which a queryBatch message was handled
BatchHandled ==
    /\ pc' = pc
    /\ msg' = "queryBatch"
    /\ <<msg, queries, results>>' # <<msg, queries, results>>

\* C15: a queryBatch message whose queries all carry a key is answered with a
\* mapping that has exactly one entry per key of the batch, the entry of a key
\* being what a single queryJournal gives for that key's query on the same
\* registry (a batch in which a single queryJournal would throw is left aside)
C15_BatchMapping ==
    [][(BatchHandled /\ \A k \in 1..Len(queries') : queries'[k].key # Undefined) =>
          \/ \E k \in 1..Len(queries') : singleAnswer(queries'[k]) = Throws
          \/ /\ results'.kind = "map"
             /\ Keys(results'.entries) = {queries'[k].key : k \in 1..Len(queries')}
             /\ Len(results'.entries) = Cardinality(Keys(results'.entries))
             /\ \A k \in 1..Len(queries') :
                   (\A l \in (k + 1)..Len(queries') : queries'[l].key # queries'[k].key)
                   => Lookup(results'.entries, queries'[k].key) = singleAnswer(queries'[k])]_vars


\* two queries that ask the same thing
SameQuery(q1, q2) == q1.issn = q2.issn /\ q1.eissn = q2.eissn /\ q1.name = q2.name

\* the k-th query of a batch is the last one under its property name, and the
\* response has an entry of that name
LastUnderKey(qs, res, k) ==
    /\ \A n \in (k + 1)..Len(qs) : propertyKey(qs[n].key) # propertyKey(qs[k].key)
    /\ HasKey(res.entries, propertyKey(qs[k].key))

\* C19: after the load no message changes the registry or the name index, the
\* result of a queryJournal message is the result the same query gets when it is
\* sent again, and two queries of a batch that ask the same thing, each the last
\* one under its key and with an entry in the response, get the same result
C19_QueriesReadOnly ==
    [][pc = "serving" =>
          /\ journalData' = journalData
          /\ nameIndex' = nameIndex
          /\ msg' = "queryJournal" =>
                result' = IF script = V2 THEN queryJournal(journalData', nameIndex', query')
                          ELSE bg_queryJournal(journalData', query')
          /\ (BatchHandled /\ results'.kind = "map") =>
                \A k, l \in 1..Len(queries') :
                   ( /\ SameQuery(queries'[k], queries'[l])
                     /\ LastUnderKey(queries', results', k)
                     /\ LastUnderKey(queries', results', l) )
                   => Lookup(results'.entries, propertyKey(queries'[k].key))
                      = Lookup(results'.entries, propertyKey(queries'[l].key))]_vars

\* C19: a name query answered with a record by the copy that keeps a name index, the
\* registry and the index being the ones the load built
C19_Witness ==
    /\ script = V2
    /\ pc = "serving"
    /\ dataLoaded
    /\ msg = "queryJournal"
    /\ ~Falsy(query.name)
    /\ result >= 1
    /\ journalData = artifact
    /\ nameIndex = <<buildNameIndex(artifact[1], 1, <<>>)>>


\* the approximate stage with every named record scored, none filtered out by its
\* first letter
unfilteredMatch(jd, name) ==
    atLeast80(fuzzyLoop(jd, name,
                        SelectSeq([i \in 1..Len(jd) |-> i], LAMBDA i : ~Falsy(jd[i].name)),
                        1, 0, Number(0)))

\* C20: a query answered from a loaded registry that reaches the approximate stage
\* gets the result it would get were every named record scored: the first-letter
\* filter removes no record that scores 80 or more
C20_FilterIsPruning ==
    [][ (Answered /\ ReachesFuzzy(journalData[1], nameIndex, query')) =>
          result' = unfilteredMatch(journalData[1], query'.name) ]_vars


\* C21: the score calculateMatchScore gives a non-empty query and a non-empty
\* target is a number from 0 to 100, however many tokens parseName leaves of each
C21_ScoreInRange ==
    (pc = "scored" /\ ~Falsy(arg.q) /\ ~Falsy(arg.t)) =>
        /\ ~isNaN(ret)
        /\ numGe(ret, Number(0))
        /\ numGe(Number(100), ret)


-----------------------------------------------------------------------------
(* The coverage loop of calculateMatchScore (convert-csv.js lines 524-547) taken *)
(* one iteration at a time: arg is the call's query and target, ret the loop's  *)
(* cursors, matchCount and the number of iterations so far.                     *)

MaxTokens == 3

AlignQueryWords == { <<"B">>, <<"B","x">>, <<"N","l">>, <<"C">> }

AlignTargetWords == { <<"B","x">>, <<"C","x">>, <<"N","a","l">>, <<"B">> }

\* lines 505-527: the call gets to the loop, no early return taken
reachesLoop(q, target) ==
    /\ ~Falsy(q) /\ ~Falsy(target)
    /\ Len(parseName(q)) <= Len(parseName(target))
    /\ ~(Len(parseName(q)) > 0 /\ parseName(q)[Len(parseName(q))] \in suspiciousEndings)

\* lines 505-527: the early returns, or the loop's variables set to 0
AlignStart ==
    /\ pc = "call"
    /\ IF reachesLoop(arg.q, arg.t)
       THEN /\ pc' = "loop"
            /\ ret' = [qIndex |-> 0, tIndex |-> 0, matchCount |-> 0, iterations |-> 0]
       ELSE /\ pc' = "returned"
            /\ ret' = Null
    /\ UNCHANGED arg
    /\ UNCHANGED cdata
    /\ UNCHANGED rvars
    /\ UNCHANGED pvars

\* tWord.startsWith(qWord) || isSubsequence(qWord, tWord), lines 533 and 537
wordMatches(qWord, tWord) == startsWith(tWord, qWord) \/ isSubsequence(qWord, tWord)

\* an iteration that leaves the target cursor where it is after a match
AlignStep_Reuse ==
    /\ pc = "loop"
    /\ ret.qIndex < Len(parseName(arg.q)) /\ ret.tIndex < Len(parseName(arg.t))
    /\ ret' = IF wordMatches(parseName(arg.q)[ret.qIndex + 1], parseName(arg.t)[ret.tIndex + 1])
              THEN [qIndex |-> ret.qIndex + 1, tIndex |-> ret.tIndex,
                    matchCount |-> ret.matchCount + 1, iterations |-> ret.iterations + 1]
              ELSE [qIndex |-> ret.qIndex, tIndex |-> ret.tIndex + 1,
                    matchCount |-> ret.matchCount, iterations |-> ret.iterations + 1]
    /\ UNCHANGED <<pc, arg>>
    /\ UNCHANGED cdata
    /\ UNCHANGED rvars
    /\ UNCHANGED pvars

\* one iteration of the while loop, lines 529-546
AlignStep ==
    /\ pc = "loop"
    /\ ret.qIndex < Len(parseName(arg.q)) /\ ret.tIndex < Len(parseName(arg.t))
    /\ ret' = IF wordMatches(parseName(arg.q)[ret.qIndex + 1], parseName(arg.t)[ret.tIndex + 1])
              THEN [qIndex |-> ret.qIndex + 1, tIndex |-> ret.tIndex + 1,
                    matchCount |-> ret.matchCount + 1, iterations |-> ret.iterations + 1]
              ELSE [qIndex |-> ret.qIndex, tIndex |-> ret.tIndex + 1,
                    matchCount |-> ret.matchCount, iterations |-> ret.iterations + 1]
    /\ UNCHANGED <<pc, arg>>
    /\ UNCHANGED cdata
    /\ UNCHANGED rvars
    /\ UNCHANGED pvars

\* the loop condition of line 529 is false: the loop is left
AlignEnd ==
    /\ pc = "loop"
    /\ ~(ret.qIndex < Len(parseName(arg.q)) /\ ret.tIndex < Len(parseName(arg.t)))
    /\ pc' = "aligned"
    /\ UNCHANGED <<arg, ret>>
    /\ UNCHANGED cdata
    /\ UNCHANGED rvars
    /\ UNCHANGED pvars

AlignInit ==
    /\ arg \in { [q |-> joinWords(qs), t |-> joinWords(ts)] :
                   qs \in SeqsUpTo(AlignQueryWords, MaxTokens),
                   ts \in SeqsUpTo(AlignTargetWords, MaxTokens) }
    /\ ret = Null
    /\ pc = "call"
    /\ ConvertIdle
    /\ RuntimeIdle
    /\ PageIdle

AlignNext == AlignStart \/ AlignStep \/ AlignEnd

SpecAlign == AlignInit /\ [][AlignNext]_vars

\* the first k query words can be matched, in order, to k distinct target words
PrefixEmbeds(qw, tw, k) ==
    \E f \in [1..k -> 1..Len(tw)] :
        /\ \A i \in 1..k : wordMatches(qw[i], tw[f[i]])
        /\ \A i, j \in 1..k : i < j => f[i] < f[j]

\* the length of the longest prefix of the query words that can be so matched
LongestPrefix(qw, tw) ==
    CHOOSE k \in 0..Len(qw) :
        /\ PrefixEmbeds(qw, tw, k)
        /\ \A m \in (k + 1)..Len(qw) : ~PrefixEmbeds(qw, tw, m)

\* C22: the coverage loop never runs more iterations than the target has tokens,
\* and when it is left matchCount is the length of the longest prefix of the query
\* tokens that can be matched, in order, to distinct target tokens
C22_GreedyAlignment ==
    /\ pc \in {"loop", "aligned"} => ret.iterations <= Len(parseName(arg.t))
    /\ pc = "aligned" =>
          /\ ret.matchCount = LongestPrefix(parseName(arg.q), parseName(arg.t))
          /\ ret.matchCount = coverageLoop(parseName(arg.q), parseName(arg.t), 1, 1, 0)

\* C22: the loop was left after skipping a target token, the query's second token
\* matched by subsequence, with two of three query tokens matched
C22_Witness ==
    /\ pc = "aligned"
    /\ Len(parseName(arg.q)) = 3
    /\ ret.matchCount = 2
    /\ ret.iterations = 3
    /\ \E i \in 1..3 : /\ isSubsequence(parseName(arg.q)[2], parseName(arg.t)[i])
                       /\ ~startsWith(parseName(arg.t)[i], parseName(arg.q)[2])


\* C23: in the written output every key holds a record that carries the key as its
\* issn or as its eissn
C23_KeyIsIdentifier ==
    (pc = "done" /\ written) =>
        \A i \in 1..Len(output) :
            /\ output[i][2] # 0
            /\ \/ heap[output[i][2]].issn = output[i][1]
               \/ heap[output[i][2]].eissn = output[i][1]


-----------------------------------------------------------------------------
(* A page: NiceMed.queryJournal of content/common.js, its per-page cache, and  *)
(* the background script that loads the registry and answers the messages.     *)

MaxCalls == 2

\* x || ''
orEmpty(x) == IF Falsy(x) THEN <<>> ELSE x

\* NiceMed._cacheKey(query), common.js lines 22-24
cacheKey(q) ==
    orEmpty(q.issn) \o <<"|">> \o orEmpty(q.eissn) \o <<"|">> \o toUpperCase(orEmpty(q.name))

\* the queries the content scripts of a page send
PageQueries ==
    { [issn |-> Undefined, eissn |-> Undefined, name |-> n] :
        n \in { <<"c","e","l","l">>, <<"C","e","l","l">>, <<"B"," ","C">> } }

\* data/journals.json of the page's browser
PageArtifacts == {<<>>} \cup {<<a>> : a \in {b \in Artifacts : Len(b) = 1}}

\* NiceMed.queryJournal(query) up to its await, common.js lines 29-39: the cached
\* value is returned, or the message is sent
CallQueryJournal ==
    /\ pc \in {"loading", "serving"}
    /\ Len(calls) < MaxCalls
    /\ \E q \in PageQueries :
          calls' = Append(calls,
                     [ query     |-> q,
                       afterLoad |-> (pc = "serving" /\ dataLoaded),
                       pc        |-> IF HasKey(cache, cacheKey(q)) THEN "returned" ELSE "sent",
                       response  |-> -1,
                       value     |-> IF HasKey(cache, cacheKey(q))
                                     THEN Lookup(cache, cacheKey(q)) ELSE -1 ])
    /\ UNCHANGED <<cache, dom>>
    /\ UNCHANGED cvars
    /\ UNCHANGED rvars
    /\ UNCHANGED nvars

\* the background's listener handles the message of a call: convert-csv.js lines
\* 406-410, background.js lines 34-38
Respond ==
    /\ pc \in {"loading", "serving"}
    /\ \E c \in 1..Len(calls) :
          /\ calls[c].pc = "sent"
          /\ query' = calls[c].query
          /\ result' = singleAnswer(calls[c].query)
          /\ calls' = [calls EXCEPT ![c].pc = "answered",
                                    ![c].response = singleAnswer(calls[c].query)]
    /\ msg' = "queryJournal"
    /\ queries' = <<>>
    /\ results' = NoResults
    /\ status' = NoStatus
    /\ UNCHANGED <<script, artifact, journalData, nameIndex, dataLoaded>>
    /\ UNCHANGED <<cache, dom>>
    /\ UNCHANGED cvars
    /\ UNCHANGED nvars

\* NiceMed.queryJournal after its await, common.js lines 40-45: the result is
\* cached and returned, or the rejection is caught and null returned
ReceiveResponse ==
    /\ \E c \in 1..Len(calls) :
          /\ calls[c].pc = "answered"
          /\ IF calls[c].response = Throws
             THEN /\ calls' = [calls EXCEPT ![c].pc = "returned", ![c].value = 0]
                  /\ UNCHANGED cache
             ELSE /\ calls' = [calls EXCEPT ![c].pc = "returned",
                                            ![c].value = calls[c].response]
                  /\ cache' = MapSet(cache, cacheKey(calls[c].query), calls[c].response)
    /\ UNCHANGED dom
    /\ UNCHANGED cvars
    /\ UNCHANGED rvars
    /\ UNCHANGED nvars

CacheInit ==
    /\ script \in {V2, BG}
    /\ artifact \in PageArtifacts
    /\ journalData = <<>>
    /\ nameIndex = <<>>
    /\ dataLoaded = FALSE
    /\ NoMessage
    /\ pc = "loading"
    /\ ConvertIdle
    /\ PureIdle
    /\ PageIdle

CacheNext ==
    \/ LoadJournalData \/ BgLoadJournalData
    \/ CallQueryJournal \/ Respond \/ ReceiveResponse

SpecCache == CacheInit /\ [][CacheNext]_vars

\* what NiceMed.queryJournal returns when the background answers from the registry
\* as it is now: the resolver's result, null when the resolver throws
Resolved(q) == IF singleAnswer(q) = Throws THEN 0 ELSE singleAnswer(q)

\* C24: a call of NiceMed.queryJournal made once the load has completed with
\* success returns what the background resolver gives for its query on the loaded
\* registry
C24_NoStaleNoMatch ==
    \A c \in 1..Len(calls) :
        (calls[c].pc = "returned" /\ calls[c].afterLoad)
        => calls[c].value = Resolved(calls[c].query)


-----------------------------------------------------------------------------
(* A page the content scripts run on: the runs of init() of content/pubmed.js   *)
(* and of processSearchResults of content/scholar.js, each taken up to the      *)
(* responses it waits for and then from a response on.  The copy and the        *)
(* "Search in PubMed" buttons are no part of the page's state here.             *)

MaxRuns == 2

\* o[f] of an object
prop(o, f) == IF f \in DOMAIN o THEN o[f] ELSE Undefined

\* a call that ends with a TypeError
ThrowsError == <<"throws">>

\* the class of the JCR badge, common.js lines 88-91
jcrType(q) ==
    IF q = <<"Q","1">> THEN "jcr-q1"
    ELSE IF q = <<"Q","2">> THEN "jcr-q2"
    ELSE IF q = <<"Q","3">> THEN "jcr-q3"
    ELSE "jcr-q4"

\* the class of the CAS badge, common.js lines 98-101
casType(q) ==
    IF q = Number(1) THEN "cas-1"
    ELSE IF q = Number(2) THEN "cas-2"
    ELSE IF q = Number(3) THEN "cas-3"
    ELSE "cas-4"

\* container.appendChild(createBadge(...)) when the test holds
badgeIf(test, type) == IF test THEN <<type>> ELSE <<>>

\* createBadgeContainer(journal) for a record, common.js lines 64-135: the badges
\* of the container by their class, in order, null when there is none; the call
\* throws when journal.name is truthy and has no toUpperCase (getDisplayName,
\* lines 76 and 149) and when journal.if is truthy and has no toFixed (line 110)
createBadgeContainer(journal) ==
    IF noToUpperCase(prop(journal, "name")) THEN ThrowsError
    ELSE IF ToBoolean(prop(journal, "if")) /\ ~isNumber(prop(journal, "if")) THEN ThrowsError
    ELSE IF badgeIf(ToBoolean(prop(journal, "name")), "name")
            \o badgeIf(ToBoolean(prop(journal, "jcrQ")), jcrType(prop(journal, "jcrQ")))
            \o badgeIf(ToBoolean(prop(journal, "casQ")), casType(prop(journal, "casQ")))
            \o badgeIf(ToBoolean(prop(journal, "if")), "if")
            \o badgeIf(ToBoolean(prop(journal, "isTop")), "top")
            \o badgeIf(ToBoolean(prop(journal, "isWarning")), "warning")
            \o badgeIf(ToBoolean(prop(journal, "isMega")), "mega")
            \o badgeIf(ToBoolean(prop(journal, "isChinaSupport")), "cn") = <<>>
         THEN Null
    ELSE badgeIf(ToBoolean(prop(journal, "name")), "name")
         \o badgeIf(ToBoolean(prop(journal, "jcrQ")), jcrType(prop(journal, "jcrQ")))
         \o badgeIf(ToBoolean(prop(journal, "casQ")), casType(prop(journal, "casQ")))
         \o badgeIf(ToBoolean(prop(journal, "if")), "if")
         \o badgeIf(ToBoolean(prop(journal, "isTop")), "top")
         \o badgeIf(ToBoolean(prop(journal, "isWarning")), "warning")
         \o badgeIf(ToBoolean(prop(journal, "isMega")), "mega")
         \o badgeIf(ToBoolean(prop(journal, "isChinaSupport")), "cn")

\* { name, issn, eissn } of pubmed.js lines 131-138, from the journal trigger's
\* text and the citation_issn and citation_eissn meta elements of the page
ArticleQueries ==
    { [issn |-> Undefined, eissn |-> Undefined, name |-> <<"c","e","l","l">>],
      [issn |-> Key7Hyphen, eissn |-> Key7, name |-> <<"C","e","l","l">>],
      [issn |-> Undefined, eissn |-> Undefined, name |-> <<"B"," ","C">>] }

\* an entry of a list of the page: a .docsum-content outside Similar articles
\* ("results"), an entry of Similar articles ("similar") or a result of Google
\* Scholar ("scholar"), all before any run.  title tells its title element
\* (.docsum-title, .gs_rt): "none", "empty" for one without text, "text"; info
\* that a result of Google Scholar has its .gs_ri block; citation that it has its
\* citation line (.docsum-journal-citation, .gs_a), and name is the journal name
\* the text of that line gives (lines 14-19 of pubmed.js, 15-29 of scholar.js).
\* attr is the processed attribute of the entry, targetAttr the one of the
\* element the badges go to, containers the badge containers inserted there
Entry(section, title, info, citation, name) ==
    [section |-> section, title |-> title, info |-> info, citation |-> citation,
     name |-> name, attr |-> "none", targetAttr |-> "none", containers |-> 0]

\* an entry with title, block and citation line
FullEntry(section, name) == Entry(section, "text", TRUE, TRUE, name)

\* extractJournalName(citationElement) of pubmed.js, lines 12-20, and
\* extractJournalFromCitation(citationEl) of scholar.js, lines 13-30: null without
\* the element
extractJournalName(e) == IF e.citation THEN e.name ELSE Null

\* the lists of an article page
ArticleEntries ==
    { <<>>,
      <<FullEntry("results", <<"C","e","l","l">>)>>,
      <<FullEntry("similar", <<"C","e","l","l">>)>>,
      <<Entry("similar", "none", TRUE, TRUE, <<"C","e","l","l">>),
        Entry("similar", "text", TRUE, FALSE, Null)>>,
      <<FullEntry("similar", <<"B"," ","C">>), FullEntry("similar", <<"c","e","l","l">>)>> }

\* the pages: PubMed article pages, a PubMed search page and a Google Scholar page
Pages ==
    { [NoDom EXCEPT !.kind = "pubmed", !.article = TRUE, !.query = q, !.entries = e] :
        q \in ArticleQueries, e \in ArticleEntries }
    \cup { [NoDom EXCEPT !.kind = "pubmed",
                         !.entries = <<FullEntry("results", <<"C","e","l","l">>),
                                       Entry("results", "none", TRUE, TRUE,
                                             <<"c","e","l","l">>),
                                       Entry("results", "text", TRUE, FALSE, Null),
                                       FullEntry("results", Null)>>],
           [NoDom EXCEPT !.kind = "scholar",
                         !.entries = <<FullEntry("scholar", <<"C","e","l","l">>),
                                       Entry("scholar", "none", TRUE, TRUE,
                                             <<"C","e","l","l">>),
                                       Entry("scholar", "empty", TRUE, TRUE,
                                             <<"C","e","l","l">>),
                                       Entry("scholar", "text", FALSE, FALSE, Null),
                                       Entry("scholar", "text", TRUE, FALSE, Null),
                                       FullEntry("scholar", Null)>>] }

\* the query { name: journalName } of an entry
entryQuery(e) == [issn |-> Undefined, eissn |-> Undefined, name |-> extractJournalName(e)]

\* browser.runtime.sendMessage of NiceMed.queryJournal, common.js lines 36-39: the
\* call for the target t (0 the article title, i the i-th entry) that its caller
\* awaits as "article" or "similar", or does not await
sendQuery(cs, q, loaded, t, awaited) ==
    Append(cs, [ query |-> q, afterLoad |-> loaded, pc |-> "sent", response |-> -1,
                 value |-> -1, target |-> t, awaited |-> awaited ])

\* element.setAttribute(ATTR_PROCESSED, a) on the target t, with n containers
\* inserted next to it
marked(d, t, a, n) ==
    IF t = 0
    THEN [d EXCEPT !.titleAttr = a, !.containers = @ + n]
    ELSE [d EXCEPT !.entries[t].targetAttr = a, !.entries[t].containers = @ + n]

\* NiceMed.addBadgesToElement after its await, common.js lines 200-218: the page
\* once the query for the target t returned journal (an index into journalData,
\* 0 for null), and what the call returns
addBadgesToElement(d, jd, t, journal) ==
    IF journal >= 1
    THEN IF createBadgeContainer(jd[1][journal]) = ThrowsError
         THEN [dom |-> d, returns |-> "throws"]
         ELSE IF createBadgeContainer(jd[1][journal]) # Null
              THEN [dom |-> marked(d, t, "true", 1), returns |-> "true"]
              ELSE [dom |-> d, returns |-> "false"]
    ELSE [dom |-> marked(d, t, "not-found", 0), returns |-> "false"]

\* NiceMed.addBadgesToElement on the target of the i-th entry, called without
\* await, common.js lines 193-199 and 29-39: the processed check, then the cached
\* value is used or the message is sent
entryBadges(st, jd, ch, loaded, i) ==
    IF st.dom.entries[i].targetAttr # "none" THEN st
    ELSE IF HasKey(ch, cacheKey(entryQuery(st.dom.entries[i])))
         THEN [st EXCEPT !.dom = addBadgesToElement(
                                     st.dom, jd, i,
                                     Lookup(ch, cacheKey(entryQuery(st.dom.entries[i])))).dom]
         ELSE [st EXCEPT !.calls = sendQuery(st.calls, entryQuery(st.dom.entries[i]),
                                             loaded, i, "none")]

\* one .docsum-content of processSearchResults of pubmed.js, lines 90-113: without
\* citation line nothing is done; with one, the badges are asked for when it
\* gives a journal name, for the title or, without title, for the citation line,
\* and the processed attribute is set
resultEntry(st, jd, ch, loaded, i) ==
    IF ~st.dom.entries[i].citation THEN st
    ELSE [(IF Falsy(extractJournalName(st.dom.entries[i])) THEN st
           ELSE entryBadges(st, jd, ch, loaded, i))
             EXCEPT !.dom.entries[i].attr = "true"]

\* processSearchResults of pubmed.js, lines 81-115, from the i-th entry on
RECURSIVE processSearchResults(_, _, _, _, _)
processSearchResults(st, jd, ch, loaded, i) ==
    IF i > Len(st.dom.entries) THEN st
    ELSE IF st.dom.entries[i].section # "results" \/ st.dom.entries[i].attr # "none"
         THEN processSearchResults(st, jd, ch, loaded, i + 1)
    ELSE processSearchResults(resultEntry(st, jd, ch, loaded, i), jd, ch, loaded, i + 1)

\* one result of processSearchResults of scholar.js, lines 41-63: the processed
\* attribute is set; without title element (line 45), title text (line 51) or
\* result block (line 55) nothing else is done; else the badges are asked for,
\* for the citation line, when it gives a journal name
gs_resultEntry(st, jd, ch, loaded, i) ==
    [(IF \/ st.dom.entries[i].title # "text"
         \/ ~st.dom.entries[i].info
         \/ Falsy(extractJournalName(st.dom.entries[i]))
      THEN st
      ELSE entryBadges(st, jd, ch, loaded, i))
        EXCEPT !.dom.entries[i].attr = "true"]

\* processSearchResults of scholar.js, lines 35-74, from the i-th entry on
RECURSIVE gs_processSearchResults(_, _, _, _, _)
gs_processSearchResults(st, jd, ch, loaded, i) ==
    IF i > Len(st.dom.entries) THEN st
    ELSE IF st.dom.entries[i].section # "scholar" \/ st.dom.entries[i].attr # "none"
         THEN gs_processSearchResults(st, jd, ch, loaded, i + 1)
    ELSE gs_processSearchResults(gs_resultEntry(st, jd, ch, loaded, i), jd, ch, loaded, i + 1)

\* processSimilarArticles of pubmed.js, lines 154-175, from the i-th entry on and
\* up to the first query it has to wait for
RECURSIVE processSimilarArticles(_, _, _, _, _)
\* the loop after the await of line 172, r being what addBadgesToElement gave
similarNext(st, r, jd, ch, loaded, i) ==
    IF r.returns = "throws" THEN [st EXCEPT !.dom = r.dom]
    ELSE processSimilarArticles([st EXCEPT !.dom = r.dom], jd, ch, loaded, i + 1)

\* lines 159-173 for the i-th entry: the badges are asked for, for the title,
\* when the citation line gives a journal name and the entry has a title
similarEntry(st, jd, ch, loaded, i) ==
    IF \/ Falsy(extractJournalName(st.dom.entries[i]))
       \/ st.dom.entries[i].title = "none"
       \/ st.dom.entries[i].targetAttr # "none"
    THEN processSimilarArticles(st, jd, ch, loaded, i + 1)
    ELSE IF HasKey(ch, cacheKey(entryQuery(st.dom.entries[i])))
         THEN similarNext(st, addBadgesToElement(
                                  st.dom, jd, i,
                                  Lookup(ch, cacheKey(entryQuery(st.dom.entries[i])))),
                          jd, ch, loaded, i)
         ELSE [st EXCEPT !.calls = sendQuery(st.calls, entryQuery(st.dom.entries[i]),
                                             loaded, i, "similar")]

processSimilarArticles(st, jd, ch, loaded, i) ==
    IF i > Len(st.dom.entries) THEN st
    ELSE IF st.dom.entries[i].section # "similar" \/ st.dom.entries[i].attr # "none"
         THEN processSimilarArticles(st, jd, ch, loaded, i + 1)
    ELSE similarEntry([st EXCEPT !.dom.entries[i].attr = "true"], jd, ch, loaded, i)

\* processArticlePage after its await, pubmed.js lines 142-148, r being what
\* addBadgesToElement gave
articleNext(st, r, jd, ch, loaded) ==
    IF r.returns = "throws" THEN [st EXCEPT !.dom = r.dom]
    ELSE processSimilarArticles(
             [st EXCEPT !.dom = IF r.returns = "true"
                                THEN [r.dom EXCEPT !.journalAttr = "true"]
                                ELSE r.dom],
             jd, ch, loaded, 1)

\* processArticlePage, pubmed.js lines 120-149 with common.js lines 193-199 and
\* 29-39, up to the first query it has to wait for: the two processed checks, then
\* the cached value is used or the message is sent
processArticlePage(st, jd, ch, loaded) ==
    IF st.dom.article /\ st.dom.journalAttr = "none"
    THEN IF st.dom.titleAttr # "none"
         THEN processSimilarArticles(st, jd, ch, loaded, 1)
         ELSE IF HasKey(ch, cacheKey(st.dom.query))
              THEN articleNext(st, addBadgesToElement(st.dom, jd, 0,
                                                      Lookup(ch, cacheKey(st.dom.query))),
                               jd, ch, loaded)
              ELSE [st EXCEPT !.calls = sendQuery(st.calls, st.dom.query, loaded, 0,
                                                  "article")]
    ELSE processSimilarArticles(st, jd, ch, loaded, 1)

\* what a run leaves of the page and of the calls
Ran(st) ==
    /\ dom' = st.dom
    /\ calls' = st.calls

\* a run of init() of pubmed.js, lines 179-182: processSearchResults, then
\* processArticlePage, each as far as it gets without a response
InitRun ==
    /\ pc \in {"loading", "serving"}
    /\ dom.kind = "pubmed"
    /\ dom.inits < MaxRuns
    /\ Ran(processArticlePage(
               processSearchResults([dom |-> [dom EXCEPT !.inits = @ + 1], calls |-> calls],
                                    journalData, cache, pc = "serving" /\ dataLoaded, 1),
               journalData, cache, pc = "serving" /\ dataLoaded))
    /\ UNCHANGED cache
    /\ UNCHANGED cvars
    /\ UNCHANGED rvars
    /\ UNCHANGED nvars

\* a run of processSearchResults of scholar.js, the one of init() (line 97) or one
\* the observer starts (line 104)
ScholarRun ==
    /\ pc \in {"loading", "serving"}
    /\ dom.kind = "scholar"
    /\ dom.inits < MaxRuns
    /\ Ran(gs_processSearchResults([dom |-> [dom EXCEPT !.inits = @ + 1], calls |-> calls],
                                   journalData, cache, pc = "serving" /\ dataLoaded, 1))
    /\ UNCHANGED cache
    /\ UNCHANGED cvars
    /\ UNCHANGED rvars
    /\ UNCHANGED nvars

\* what NiceMed.queryJournal returns for a response, common.js lines 40-45
returned(response) == IF response = Throws THEN 0 ELSE response

\* NiceMed._cache after a response, common.js lines 40 and 42-45
cached(ch, call) ==
    IF call.response = Throws THEN ch ELSE MapSet(ch, cacheKey(call.query), call.response)

\* the caller of addBadgesToElement goes on after the call c gave r
resumed(st, r, c, jd, ch, loaded) ==
    IF st.calls[c].awaited = "article" THEN articleNext(st, r, jd, ch, loaded)
    ELSE IF st.calls[c].awaited = "similar"
         THEN similarNext(st, r, jd, ch, loaded, st.calls[c].target)
    ELSE [st EXCEPT !.dom = r.dom]

\* a run from a response on: common.js lines 40-45 and 200-218, then the caller,
\* pubmed.js lines 142-148 or 157-174
ResumeRun ==
    /\ \E c \in 1..Len(calls) :
          /\ calls[c].pc = "answered"
          /\ cache' = cached(cache, calls[c])
          /\ Ran(resumed([dom |-> dom,
                          calls |-> [calls EXCEPT ![c].pc = "returned",
                                                  ![c].value = returned(calls[c].response)]],
                         addBadgesToElement(dom, journalData, calls[c].target,
                                            returned(calls[c].response)),
                         c, journalData, cached(cache, calls[c]),
                         pc = "serving" /\ dataLoaded))
    /\ UNCHANGED cvars
    /\ UNCHANGED rvars
    /\ UNCHANGED nvars

\* a record of the registry with what the badges show
BadgeRecord(name, jcr, cas, factor, top) ==
    [key |-> Key7, name |-> name, aliases |-> <<>>, jcrQ |-> jcr, casQ |-> cas,
     if |-> factor, isTop |-> top]

\* data/journals.json of the browser of these pages: none, one record with a name
\* only, and one record under the key 7777777 that gives every badge, that gives
\* the JCR badge but no name badge, that gives no badge at all, whose impact
\* factor is a text, or whose name is a number
ArticleArtifacts ==
    PageArtifacts
    \cup { << <<BadgeRecord(<<"C","e","l","l">>, <<"Q","1">>, Number(1),
                           numDiv(Number(21), Number(4)), True)>> >>,
           << <<BadgeRecord(<<>>, <<"Q","4">>, Undefined, Undefined, Undefined)>> >>,
           << <<BadgeRecord(<<>>, Undefined, Undefined, Number(0), False)>> >>,
           << <<BadgeRecord(<<"C","e","l","l">>, Undefined, Undefined,
                           <<"5",".","2">>, Undefined)>> >>,
           << <<BadgeRecord(Number(5), <<"Q","1">>, Undefined, Undefined, Undefined)>> >> }

ArticleInit ==
    /\ script \in {V2, BG}
    /\ artifact \in ArticleArtifacts
    /\ journalData = <<>>
    /\ nameIndex = <<>>
    /\ dataLoaded = FALSE
    /\ NoMessage
    /\ pc = "loading"
    /\ ConvertIdle
    /\ PureIdle
    /\ cache = <<>>
    /\ calls = <<>>
    /\ dom \in Pages

ArticleNext ==
    \/ LoadJournalData \/ BgLoadJournalData
    \/ InitRun \/ ScholarRun \/ Respond \/ ResumeRun

SpecArticle == ArticleInit /\ [][ArticleNext]_vars

\* C25: whatever the order of the runs of init() and of the responses to their
\* queries, at most one badge container is inserted for the article title
C25_OneContainer == dom.containers <= 1

=============================================================================
